---- MODULE Spec2Model ----
(***************************************************************************)
(* cloud_sync: incremental OneDrive -> S3 backup.                          *)
(*                                                                         *)
(* The module models the synchronisation engine of src/src: the chunk      *)
(* iterator (chunk.rs), the capacity check and the destination calls       *)
(* (aws_manager.rs), the change feed and its cursor (onedrive_manager.rs), *)
(* and the scheduler loop with reconciliation and the two transfer paths   *)
(* (cloud_sync.rs).                                                        *)
(*                                                                         *)
(* Option<T> values are sequences of length 0 (None) or 1 (Some(x)).       *)
(* Byte counts are scaled down: CHUNK_SIZE and MAX_CHUNKS keep the roles   *)
(* they have in aws_manager.rs with small values.                          *)
(***************************************************************************)
EXTENDS Integers, Sequences, FiniteSets, TLC

VARIABLES
    \* ---- chunk.rs, driven on its own (ChunkSpec) ----
    chunk,            \* the Chunk iterator struct {from, to, part, size, chunk_size}
    plan,             \* the entries next() has returned so far, in order
    chunk_pc,         \* "iter" | "done" (next() returned None) | "panic"
    overflow_checks,  \* build profile: TRUE = arithmetic overflow panics, FALSE = it wraps
    \* ---- token_manager.rs, driven on its own (TokenSpec) ----
    tokens,           \* the Tokens struct
    tokens_store,     \* content of the file at tokens_path: Option<json of Tokens>
    now,              \* Utc::now(), in ticks of 1 / TicksPerSecond seconds
    token_result,     \* what the last call on tokens returned
    \* ---- two calls driven on their own (FromFileSpec, SleepSpec) ----
    loading,          \* a call of Tokens::from_file: where it stands, and its locals
    alarm,            \* a call of sleep_until_time: where it stands, and its locals
    \* ---- the mailer task and its channel (MailSpec) ----
    mail,             \* the mpsc channel of main.rs and the task of mail_manager::mailer
    \* ---- the world outside the process ----
    feed,             \* OneDrive's change log: the records of /delta, oldest first
    bucket,           \* S3: object key -> Option<[size, meta]>, meta the "mtime" metadata
    cursor_file,      \* the file at delta_link_path: Option<data_delta_link>
    tokens_file,      \* whether the file at tokens_path exists
    \* ---- the sync task (cloud_sync.rs) ----
    pc,               \* where sync / sync_loop stands
    result,           \* how the last call of sync_loop ended, as sync sees it
    od_link,          \* mgr.one_drive.delta_link.data_delta_link
    access,           \* the access tokens held: mgr = mgr.tokens.access_token,
                      \*   od = mgr.one_drive.access_token
    url,              \* get_delta: the page to request next
    deltas,           \* get_delta's Vec<ItemInfo>
    objects,          \* the Vec<ObjectInfo> list_objects returned in this pass
    idx,              \* position of the for loop of sync_loop in deltas
    cur,              \* the record backup_file was last called for
    upload,           \* locals of copy_file / upload_file, and two facts about them:
                      \*   checked = check_tokens returned Ok and no source read was issued since,
                      \*   url_age = ticks the download url was old at the last test of its age
    \* ---- history, read by the properties only ----
    calls,            \* the calls made since backup_file was entered for cur (a set of names)
    outcomes,         \* what the for loop did with deltas[1..idx-1]
    applied,          \* feed positions whose record was reconciled to the end
    retry             \* the last attempt ended after get_delta and before save_delta_link

chunkVars == <<chunk, plan, chunk_pc, overflow_checks>>
tokenVars == <<tokens, tokens_store, now, token_result>>
callVars  == <<loading, alarm>>
mailVars  == <<mail>>
\* the variables of the parts driven on their own
unitVars  == <<chunk, plan, chunk_pc, overflow_checks, tokens, tokens_store, now, token_result,
               loading, alarm, mail>>
worldVars == <<feed, bucket, cursor_file, tokens_file>>
passVars  == <<od_link, access, url, deltas, objects, idx, outcomes, upload>>
\* passVars without the locals of the transfer
batchVars == <<od_link, access, url, deltas, objects, idx, outcomes>>
syncVars  == <<feed, bucket, cursor_file, tokens_file, pc, result, od_link, access, url,
               deltas, objects, idx, cur, upload, calls, outcomes, applied, retry>>

vars == <<chunk, plan, chunk_pc, overflow_checks, tokens, tokens_store, now, token_result,
          loading, alarm, mail, feed, bucket, cursor_file, tokens_file, pc, result, od_link,
          access, url,
          deltas, objects, idx, cur, upload, calls, outcomes, applied, retry>>

-----------------------------------------------------------------------------
(* Bounds of the model *)

\* largest file size drawn when a function is driven on its own
MaxSize == 6
\* largest chunk size drawn for the chunk iterator on its own
MaxChunkSize == 3
\* entries consumed from an iterator that does not stop by itself
MaxEmit == 8
\* width of the scaled-down u64
U64Bits == 8
\* change records the source produces in one behaviour
MaxFeed == 2
\* modification timestamps 1..MaxMtime
MaxMtime == 2
\* resolution of the clock
TicksPerSecond == 2
\* credential sets the authority hands out after the first
MaxGrants == 2
\* longest part list handed to complete_multipart_upload on its own
MaxParts == 3
\* the sleeps of one call of from_file that are counted
MaxPolls == 3
\* seconds of a day of local time when sleep_until_time is driven on its own
DaySecs == 4

(* Program constants (aws_manager.rs), scaled *)
CHUNK_SIZE == 2
MAX_CHUNKS == 2

(* Program constant (token_manager.rs): the ceiling of is_expired, in seconds *)
TOKEN_MAX_AGE == 1800
(* Program constant (token_manager.rs): the seconds from_file sleeps between two tests of the file *)
POLL_SECS == 60
(* Program constant (cloud_sync.rs): the age in seconds past which a download url is renewed *)
URL_MAX_AGE == 1800

U64_MAX == (2 ^ U64Bits) - 1

-----------------------------------------------------------------------------
(* Option<T> *)

None == <<>>
Some(x) == <<x>>
IsSome(o) == Len(o) = 1
Unwrap(o) == o[1]

-----------------------------------------------------------------------------
(* u64 arithmetic: the value the wrapping build computes, and whether the   *)
(* operation overflowed (the checking build panics there).                  *)

SubU64(a, b) ==
    IF a >= b THEN [v |-> a - b, ovf |-> FALSE]
              ELSE [v |-> a - b + U64_MAX + 1, ovf |-> TRUE]

AddU64(a, b) ==
    IF a + b <= U64_MAX THEN [v |-> a + b, ovf |-> FALSE]
                        ELSE [v |-> a + b - (U64_MAX + 1), ovf |-> TRUE]

-----------------------------------------------------------------------------
(* chunk.rs *)

Chunk_new(size, chunk_size) ==
    [from |-> 0, to |-> 0, part |-> 1, size |-> size, chunk_size |-> chunk_size]

\* Iterator::next: [panic, item: Option<(part, from, to)>, c: the iterator after the call]
Chunk_next(c, checks) ==
    LET last == SubU64(c.size, 1)
        sum  == AddU64(c.from, c.chunk_size)
        raw  == SubU64(sum.v, 1)
    IN  IF last.ovf /\ checks
        THEN [panic |-> TRUE, item |-> None, c |-> c]
        ELSE IF c.to >= last.v
        THEN [panic |-> FALSE, item |-> None, c |-> c]
        ELSE IF (sum.ovf \/ raw.ovf) /\ checks
        THEN [panic |-> TRUE, item |-> None, c |-> c]
        ELSE LET to   == IF raw.v > last.v THEN last.v ELSE raw.v
                 nxt  == AddU64(to, 1)
             IN  IF nxt.ovf /\ checks
                 THEN [panic |-> TRUE, item |-> None, c |-> [c EXCEPT !.to = to]]
                 ELSE [panic |-> FALSE,
                       item  |-> Some(<<c.part, c.from, to>>),
                       c     |-> [c EXCEPT !.to = to, !.from = nxt.v, !.part = c.part + 1]]

-----------------------------------------------------------------------------
(* aws_manager.rs: capacity check *)

\* chunk_count as check_for_multipart_upload computes it
ChunkCount(file_size) ==
    LET chunk_count        == (file_size \div CHUNK_SIZE) + 1
        size_of_last_chunk == file_size % CHUNK_SIZE
    IN  IF size_of_last_chunk = 0 THEN chunk_count - 1 ELSE chunk_count

\* "ok" or the error text
check_for_multipart_upload(file_size) ==
    IF file_size = 0 THEN "file size is zero"
    ELSE IF ChunkCount(file_size) > MAX_CHUNKS THEN "chunk count exceeded maximum"
    ELSE "ok"

get_chunk_size == CHUNK_SIZE

-----------------------------------------------------------------------------
(* Strings: sequences of one-character strings.  i64::to_string and         *)
(* i64::from_str are computed digit by digit.                               *)

Digits == <<"0", "1", "2", "3", "4", "5", "6", "7", "8", "9">>

DigitVal(c) == IF \E d \in 1..10 : Digits[d] = c
               THEN (CHOOSE d \in 1..10 : Digits[d] = c) - 1
               ELSE -1

RECURSIVE NatToString(_)
NatToString(n) ==
    IF n < 10 THEN <<Digits[n + 1]>>
              ELSE Append(NatToString(n \div 10), Digits[(n % 10) + 1])

\* i64::to_string
I64ToString(n) == IF n < 0 THEN <<"-">> \o NatToString(-n) ELSE NatToString(n)

RECURSIVE DigitsValue(_)
DigitsValue(str) ==
    IF str = <<>> THEN 0
    ELSE 10 * DigitsValue(SubSeq(str, 1, Len(str) - 1)) + DigitVal(str[Len(str)])

\* i64::from_str(..).ok(): an optional sign, then one or more digits
I64FromStr(str) ==
    LET signed == str # <<>> /\ str[1] \in {"-", "+"}
        body   == IF signed THEN Tail(str) ELSE str
    IN  IF body = <<>> \/ \E i \in 1..Len(body) : DigitVal(body[i]) < 0
        THEN None
        ELSE Some(IF signed /\ str[1] = "-" THEN -DigitsValue(body) ELSE DigitsValue(body))

\* mtime.split_once('.').unwrap().0 when the text holds a '.', else the text
TrimAtDot(str) ==
    IF \E i \in 1..Len(str) : str[i] = "."
    THEN SubSeq(str, 1, (CHOOSE i \in 1..Len(str) :
                            str[i] = "." /\ \A j \in 1..(i - 1) : str[j] # ".") - 1)
    ELSE str

-----------------------------------------------------------------------------
(* aws_manager.rs: objects *)

\* what put_object / a completed multipart upload leaves under a key
StoredObject(size, mtime_text) == [size |-> size, meta |-> Some(mtime_text)]

\* construct_object_info: head is the object as head_object reports it
construct_object_info(head) ==
    [mtime |-> IF IsSome(head.meta) THEN I64FromStr(TrimAtDot(Unwrap(head.meta))) ELSE None,
     size  |-> Some(head.size)]

\* get_object_info: Option<ObjectInfo>, a 404 being "no object"
get_object_info(b, object_name) ==
    IF IsSome(b[object_name]) THEN Some(construct_object_info(Unwrap(b[object_name])))
                              ELSE None

\* get_mtime: the stored modification time of the object, if it has one
get_mtime(b, object_name) ==
    LET info == get_object_info(b, object_name)
    IN  IF IsSome(info) THEN Unwrap(info).mtime ELSE None

\* list_objects: one ObjectInfo {filename, size} per object of the bucket
list_objects(b) ==
    {[filename |-> k, size |-> Some(Unwrap(b[k]).size)] : k \in {k \in DOMAIN b : IsSome(b[k])}}

-----------------------------------------------------------------------------
(* The source: items, change records, pages of the change feed             *)

Items == {"a", "b"}
Mtimes == 1..MaxMtime

\* sizes at the borders of the transfer paths: empty, the largest single-shot
\* copy, the smallest multipart upload, the smallest size the capacity check rejects
FileSizes == {0, CHUNK_SIZE, CHUNK_SIZE + 1, CHUNK_SIZE * MAX_CHUNKS + 1}

\* a Value of onedrive_model.rs, as far as get_delta and item_info read it:
\* path = parent_reference.path.is_some(), deleted = deleted.is_some(), file = file.is_some(),
\* sound = the values item_info unwraps are there: the path holds a ':', and
\* name and last_modified_date_time are Some
FileValue(item, size, mtime) ==
    [item |-> item, path |-> TRUE, deleted |-> FALSE, file |-> TRUE, size |-> size,
     mtime |-> mtime, sound |-> TRUE]
FolderValue(item) ==
    [item |-> item, path |-> TRUE, deleted |-> FALSE, file |-> FALSE, size |-> 0,
     mtime |-> 1, sound |-> TRUE]
DeletedValue(item) ==
    [item |-> item, path |-> TRUE, deleted |-> TRUE, file |-> TRUE, size |-> 0,
     mtime |-> 1, sound |-> TRUE]
RootValue(item) ==
    [item |-> item, path |-> FALSE, deleted |-> FALSE, file |-> FALSE, size |-> 0,
     mtime |-> 1, sound |-> TRUE]
\* a record with a parent path and no ':' in it, or without name or modification time
UnsoundValue(item) ==
    [item |-> item, path |-> TRUE, deleted |-> FALSE, file |-> TRUE, size |-> 0,
     mtime |-> 1, sound |-> FALSE]

Values ==
    {FileValue(i, s, m) : i \in Items, s \in FileSizes, m \in Mtimes}
        \cup {FolderValue(i) : i \in Items}
        \cup {DeletedValue(i) : i \in Items}
        \cup {RootValue(i) : i \in Items}
        \cup {UnsoundValue(i) : i \in Items}

\* String::default(), the data_delta_link of a new OneDrive
EmptyLink == -1
\* position of "https://graph.microsoft.com/v1.0/me/drive/root/delta" in the change log
RootUrl == 0
\* records per page of the change feed
PageSize == 1

\* item_info; seq is the record's position in the change log (history only)
item_info(value, seq) ==
    [filename |-> value.item, item_id |-> value.item, size |-> value.size,
     mtime |-> value.mtime, file |-> value.file, seq |-> seq]

\* item_info panics on value: one of its unwrap() calls meets None (lines 214-218, 232)
item_info_panics(value) == ~value.sound

\* the filter of get_delta as it would be without the test of deleted
Qualifies_deleted_too(value) == value.path

\* the filter of get_delta on the records of one page
Qualifies(value) == value.path /\ ~value.deleted

\* item_info panics on a record of the page at positions lo+1..hi
PagePanics(log, lo, hi) ==
    \E i \in (lo + 1)..hi : Qualifies(log[i]) /\ item_info_panics(log[i])

\* the ItemInfo of the qualifying records at positions lo+1..hi, in order
RECURSIVE PageItems(_, _, _)
PageItems(log, lo, hi) ==
    IF lo >= hi THEN <<>>
    ELSE LET rest == PageItems(log, lo, hi - 1)
         IN  IF Qualifies(log[hi]) THEN Append(rest, item_info(log[hi], hi)) ELSE rest

NoFile == [filename |-> "", item_id |-> "", size |-> 0, mtime |-> 0, file |-> FALSE, seq |-> 0]
NoUpload == [chunk |-> Chunk_new(0, 0), range |-> None, bytes |-> 0, parts |-> <<>>, meta |-> None,
             checked |-> FALSE, url_age |-> 0]

\* access tokens: the one of the Tokens from_file loaded, and the one of the
\* last answer to refresh_tokens; "" is String::default()
LoadedToken == "loaded"
RefreshedToken == "refreshed"
\* no Mgr lives
NoAccess == [mgr |-> "", od |-> ""]

\* lines 53-62 of cloud_sync.rs with OneDrive::new of onedrive_manager.rs
\* (lines 34-49): mgr.tokens is the loaded set, and the OneDrive struct is built
\* with access_token: String::default(); new has no parameter that takes the
\* token sync_loop hands to it
OneDrive_new(token) == [mgr |-> token, od |-> ""]

\* the assignments of refresh_tokens to mgr.tokens, then set_access_token
\* (cloud_sync.rs 122-123, onedrive_manager.rs 57-59)
set_access_token(token) == [mgr |-> token, od |-> token]

\* the channel and the mailer task before main has spawned the task
NoMail == [pc |-> "idle", queue |-> 0, appended |-> "none", routed |-> FALSE]

-----------------------------------------------------------------------------
(* cloud_sync.rs: sync and sync_loop                                        *)

\* pc values from get_delta's return to save_delta_link
AfterDelta ==
    {"list_objects", "reconcile", "backup_file", "copy_check_tokens", "copy_get_download_url",
     "copy_get_file", "copy_check_size", "copy_put_object", "upload_file",
     "upload_first_check_tokens", "upload_first_url", "create_multipart_upload", "upload_next",
     "upload_check_tokens", "upload_check_url", "get_file_range", "upload_part",
     "complete_multipart_upload", "save_delta_link"}

\* sync_loop's Err as it would be if sync went on with a new pass at once
Fail_retrying(kind) ==
    /\ pc' = "check_tokens"
    /\ result' = kind
    /\ retry' = (retry \/ pc \in AfterDelta)
    /\ od_link' = EmptyLink
    /\ access' = NoAccess
    /\ url' = RootUrl
    /\ deltas' = <<>>
    /\ objects' = {}
    /\ idx' = 0
    /\ outcomes' = <<>>
    /\ upload' = NoUpload

\* sync_loop returns Err(kind): sync logs it and calls sync_loop again, which
\* sleeps until the next sync_time; the Mgr of the failed call is dropped
Fail(kind) ==
    /\ pc' = "sleep_51"
    /\ result' = kind
    /\ retry' = (retry \/ pc \in AfterDelta)
    /\ od_link' = EmptyLink
    /\ access' = NoAccess
    /\ url' = RootUrl
    /\ deltas' = <<>>
    /\ objects' = {}
    /\ idx' = 0
    /\ outcomes' = <<>>
    /\ upload' = NoUpload

\* a step that stays inside the pass and goes on at pc value next
Goto(next) ==
    /\ pc' = next
    /\ UNCHANGED <<result, retry>>

Log(call) == calls' = calls \cup {call}

\* sleep_until_time returns (line 51 of a new sync_loop, line 89 of a running one)
Wake ==
    /\ pc \in {"sleep_51", "sleep_89"}
    /\ pc' = IF pc = "sleep_51" THEN "from_file" ELSE "check_tokens"
    /\ result' = "none"
    /\ cur' = NoFile
    /\ calls' = {}
    /\ UNCHANGED <<worldVars, passVars, applied, retry>>

\* from_file as it would be if it went on without the tokens file
FromFile_unguarded ==
    /\ pc \in {"from_file", "from_file_sleep"}
    /\ pc' = "check_tokens"
    /\ od_link' = EmptyLink
    /\ access' = OneDrive_new(LoadedToken)
    /\ UNCHANGED <<url, deltas, objects, idx, outcomes, upload>>
    /\ UNCHANGED <<worldVars, result, cur, calls, applied, retry>>

\* Tokens::from_file, then OneDrive::new and AWS::new (lines 53-62); while the
\* tokens file is missing from_file sleeps 60 s and looks again: pc is
\* "from_file" at the first look, right after the wake, and "from_file_sleep"
\* from the first sleep on
FromFile ==
    /\ pc \in {"from_file", "from_file_sleep"}
    /\ IF tokens_file
       THEN /\ pc' = "check_tokens"
            /\ od_link' = EmptyLink
            /\ access' = OneDrive_new(LoadedToken)
            /\ UNCHANGED <<url, deltas, objects, idx, outcomes, upload>>
       ELSE /\ pc' = "from_file_sleep"
            /\ UNCHANGED passVars
    /\ UNCHANGED <<worldVars, result, cur, calls, applied, retry>>

\* the /code endpoint (main.rs): Tokens::from_code writes the tokens file
Authorize ==
    /\ ~tokens_file
    /\ tokens_file' = TRUE
    /\ UNCHANGED <<feed, bucket, cursor_file, pc, result, passVars, cur, calls, applied, retry>>

\* From<TokenError> for CloudSyncError
CloudSyncErrorOf(e) ==
    IF e \in {"NoTokensFile", "RefreshTokenExpired"} THEN "TokenExpiredWarning" ELSE "TokenError"

\* check_tokens, called at pc value at; on Ok the caller goes on at next.
\* expired = is_expired(); resp = the authority's answer to refresh_tokens
CheckTokensAt(at, next) ==
    /\ pc = at
    /\ \E expired \in BOOLEAN, resp \in {"success", "rejected", "error"} :
         IF ~expired
         THEN /\ Goto(next)
              /\ Log("check_tokens")
              /\ upload' = [upload EXCEPT !.checked = TRUE]
              /\ UNCHANGED <<tokens_file, batchVars>>
         ELSE /\ calls' = calls \cup {"check_tokens", "refresh_tokens"}
              /\ CASE resp = "success" ->
                        /\ tokens_file' = TRUE
                        /\ Goto(next)
                        /\ upload' = [upload EXCEPT !.checked = TRUE]
                        /\ access' = set_access_token(RefreshedToken)
                        /\ UNCHANGED <<od_link, url, deltas, objects, idx, outcomes>>
                   [] resp = "rejected" ->
                        IF tokens_file
                        THEN /\ tokens_file' = FALSE
                             /\ Fail(CloudSyncErrorOf("RefreshTokenExpired"))
                        ELSE UNCHANGED tokens_file /\ Fail(CloudSyncErrorOf("FileIO"))
                   [] resp = "error" ->
                        UNCHANGED tokens_file /\ Fail(CloudSyncErrorOf("Request"))
    /\ UNCHANGED <<feed, bucket, cursor_file, cur, applied>>

\* line 65
SyncCheckTokens == CheckTokensAt("check_tokens", "get_delta")

\* get_delta_link as it would be if a missing cursor file stood for a cursor
\* behind the first record
get_delta_link_past_first(file) == IF file = None THEN Some(1) ELSE file

\* get_delta_link: the cursor get_delta starts from
get_delta_link(file) == file

\* store_delta_link as it would be if it wrote the cursor file as well
store_delta_link_persisting(delta_link) ==
    /\ od_link' = delta_link
    /\ UNCHANGED access
    /\ cursor_file' = Some(delta_link)

\* store_delta_link: the new cursor is kept in the OneDrive struct only
store_delta_link(delta_link) ==
    /\ od_link' = delta_link
    /\ UNCHANGED <<access, cursor_file>>

\* get_delta up to its loop (lines 130-138)
GetDeltaStart ==
    /\ pc = "get_delta"
    /\ url' = (IF IsSome(get_delta_link(cursor_file))
               THEN Unwrap(get_delta_link(cursor_file)) ELSE RootUrl)
    /\ deltas' = <<>>
    /\ Goto("get_delta_page")
    /\ UNCHANGED <<worldVars, od_link, access, objects, idx, outcomes, upload, cur, calls, applied>>

\* the task of sync unwinds with a panic: nothing of it runs any more
Panic ==
    /\ pc' = "panic"
    /\ od_link' = EmptyLink
    /\ access' = NoAccess
    /\ url' = RootUrl
    /\ deltas' = <<>>
    /\ objects' = {}
    /\ idx' = 0
    /\ outcomes' = <<>>
    /\ upload' = NoUpload
    /\ UNCHANGED <<result, retry>>

\* get_delta returns Err: its locals are dropped, self is left as it is
GetDeltaErr ==
    /\ pc' = "get_delta_err"
    /\ url' = RootUrl
    /\ deltas' = <<>>
    /\ UNCHANGED <<result, retry, od_link, access, cursor_file, objects, idx, outcomes, upload>>

\* lines 152-157 as they would be if each page replaced what was gathered
pushed_replacing(acc, page) == page

\* lines 152-157: the records of a page are pushed onto deltas in their order
pushed(acc, page) == acc \o page

\* line 69 as it would be if the inventory were fetched for an empty change set too
after_get_delta_always_listing(got) == "list_objects"

\* lines 69 and 86: where sync_loop goes on with the deltas get_delta returned
after_get_delta(got) == IF got # <<>> THEN "list_objects" ELSE "save_delta_link"

\* get_delta's loop as it would be if a page without links ended the feed
GetDeltaPage_lenient ==
    /\ pc = "get_delta_page"
    /\ \E resp \in {"page", "failed", "no_link"} :
         LET hi   == IF url + PageSize < Len(feed) THEN url + PageSize ELSE Len(feed)
             got  == pushed(deltas, PageItems(feed, url, hi))
         IN  IF resp = "failed" \/ url = EmptyLink
             THEN GetDeltaErr
             ELSE IF PagePanics(feed, url, hi)
             THEN Panic /\ UNCHANGED cursor_file
             ELSE IF resp = "page" /\ hi < Len(feed)
             THEN /\ url' = hi
                  /\ deltas' = got
                  /\ Goto("get_delta_page")
                  /\ UNCHANGED <<od_link, access, cursor_file, objects, idx, outcomes, upload>>
             ELSE /\ store_delta_link(hi)
                  /\ deltas' = got
                  /\ pc' = after_get_delta(got)
                  /\ UNCHANGED <<result, retry, url, objects, idx, outcomes, upload>>
    /\ UNCHANGED <<feed, bucket, tokens_file, cur, calls, applied>>

\* one turn of get_delta's loop (lines 139-168): the request of page url.
\* The server answers with the records after position url, at most PageSize of
\* them, and a nextLink while more are left, else a deltaLink; resp draws a
\* failed request and a page that carries neither link.  On Ok(deltas) the
\* step goes on in sync_loop at line 69.
GetDeltaPage ==
    /\ pc = "get_delta_page"
    /\ \E resp \in {"page", "failed", "no_link"} :
         LET hi   == IF url + PageSize < Len(feed) THEN url + PageSize ELSE Len(feed)
             got  == pushed(deltas, PageItems(feed, url, hi))
         IN  IF resp = "failed" \/ url = EmptyLink
             THEN GetDeltaErr
             ELSE IF PagePanics(feed, url, hi)
             THEN Panic /\ UNCHANGED cursor_file
             ELSE IF resp = "no_link"
             THEN GetDeltaErr
             ELSE IF hi < Len(feed)
             THEN /\ url' = hi
                  /\ deltas' = got
                  /\ Goto("get_delta_page")
                  /\ UNCHANGED <<od_link, access, cursor_file, objects, idx, outcomes, upload>>
             ELSE /\ store_delta_link(hi)
                  /\ deltas' = got
                  /\ pc' = after_get_delta(got)
                  /\ UNCHANGED <<result, retry, url, objects, idx, outcomes, upload>>
    /\ UNCHANGED <<feed, bucket, tokens_file, cur, calls, applied>>

\* line 68: the `?` on get_delta's Err
GetDeltaFailed ==
    /\ pc = "get_delta_err"
    /\ Fail("OneDrive")
    /\ UNCHANGED <<worldVars, cur, calls, applied>>

\* the for loop as it would be if it stopped after its first record
Advance_stopping ==
    /\ idx' = idx + 1
    /\ pc' = "save_delta_link"
    /\ UNCHANGED <<result, retry>>

\* the position the for loop goes to after deltas[idx]
Advance ==
    /\ idx' = idx + 1
    /\ pc' = IF idx + 1 > Len(deltas) THEN "save_delta_link" ELSE "reconcile"
    /\ UNCHANGED <<result, retry>>

\* line 71
ListObjects ==
    /\ pc = "list_objects"
    /\ \E ok \in BOOLEAN :
         IF ok
         THEN /\ objects' = list_objects(bucket)
              /\ idx' = 1
              /\ Goto("reconcile")
              /\ UNCHANGED <<od_link, access, url, deltas, outcomes, upload>>
         ELSE Fail("AWS")
    /\ UNCHANGED <<worldVars, cur, calls, applied>>

\* save_delta_link as it would be if it wrote only after a change set with records
save_delta_link_after_records ==
    cursor_file' = IF deltas # <<>> THEN Some(od_link) ELSE cursor_file

\* save_delta_link writes the struct's delta link to the cursor file
save_delta_link == cursor_file' = Some(od_link)

\* lines 86-89
SaveDeltaLink ==
    /\ pc = "save_delta_link"
    /\ \E ok \in BOOLEAN :
         IF ok
         THEN /\ save_delta_link
              /\ pc' = "sleep_89"
              /\ result' = "ok"
              /\ retry' = FALSE
              /\ deltas' = <<>>
              /\ objects' = {}
              /\ idx' = 0
              /\ outcomes' = <<>>
              /\ UNCHANGED <<od_link, access, url, upload>>
         ELSE Fail("OneDrive") /\ UNCHANGED cursor_file
    /\ UNCHANGED <<feed, bucket, tokens_file, cur, calls, applied>>

\* the source changes: OneDrive appends a record to the change log
SourceChange ==
    /\ Len(feed) < MaxFeed
    /\ \E v \in Values : feed' = Append(feed, v)
    /\ UNCHANGED <<bucket, cursor_file, tokens_file, pc, result, passVars, cur, calls,
                   applied, retry>>

\* the process stops and is started again: main spawns sync anew
Restart ==
    /\ pc # "sleep_51"
    /\ pc' = "sleep_51"
    /\ result' = "none"
    /\ retry' = (retry \/ pc \in AfterDelta)
    /\ od_link' = EmptyLink
    /\ access' = NoAccess
    /\ url' = RootUrl
    /\ deltas' = <<>>
    /\ objects' = {}
    /\ idx' = 0
    /\ outcomes' = <<>>
    /\ upload' = NoUpload
    /\ cur' = NoFile
    /\ calls' = {}
    /\ UNCHANGED <<worldVars, applied>>

-----------------------------------------------------------------------------
(* cloud_sync.rs: reconciliation and the two transfer paths                 *)

\* backup_needed as it would be without the test of f_size against zero
backup_needed_any_size(b, t_filename, f_size, t_size, f_mtime) ==
    LET t_mtime == get_mtime(b, t_filename)
    IN  IF IsSome(t_mtime)
        THEN f_mtime # Unwrap(t_mtime)
        ELSE ~(IsSome(t_size) /\ f_size = Unwrap(t_size))

\* backup_needed, with the bucket get_mtime asks
backup_needed(b, t_filename, f_size, t_size, f_mtime) ==
    LET t_mtime == get_mtime(b, t_filename)
    IN  IF IsSome(t_mtime)
        THEN (IF f_mtime # Unwrap(t_mtime) THEN TRUE ELSE FALSE)
        ELSE IF f_size # 0 /\ ~(IsSome(t_size) /\ f_size = Unwrap(t_size))
        THEN TRUE
        ELSE FALSE

\* the for loop leaves deltas[idx] alone
Skip(why) ==
    /\ Advance
    /\ outcomes' = Append(outcomes, [how |-> why, parts |-> 0])
    /\ applied' = applied \cup {deltas[idx].seq}
    /\ UNCHANGED <<od_link, access, url, deltas, objects, upload, cur, calls>>

\* the for loop calls backup_file for f
StartBackup(f) ==
    /\ Goto("backup_file")
    /\ cur' = f
    /\ calls' = {}
    /\ upload' = NoUpload
    /\ UNCHANGED <<od_link, access, url, deltas, objects, idx, outcomes, applied>>

\* backup_file returned Ok(()) for cur
Done(how) ==
    /\ Advance
    /\ outcomes' = Append(outcomes, [how |-> how, parts |-> Len(upload.parts)])
    /\ applied' = applied \cup {cur.seq}
    /\ upload' = NoUpload
    /\ UNCHANGED <<od_link, access, url, deltas, objects, cur>>

\* one turn of the for loop of sync_loop (lines 74-84), up to the call of backup_file
Reconcile ==
    /\ pc = "reconcile"
    /\ idx \in 1..Len(deltas)
    /\ LET f     == deltas[idx]
           found == {o \in objects : f.filename = o.filename}
       IN  IF ~f.file
           THEN Skip("not_a_file")
           ELSE IF found # {}
           THEN LET t == CHOOSE o \in found : TRUE
                IN  \E head \in {"answered", "failed"} :
                      IF head = "failed"
                      THEN Fail("AWS") /\ UNCHANGED <<cur, calls, applied>>
                      ELSE IF backup_needed(bucket, t.filename, f.size, t.size, f.mtime)
                      THEN StartBackup(f)
                      ELSE Skip("not_needed")
           ELSE StartBackup(f)
    /\ UNCHANGED worldVars

\* backup_file's choice as it would be with >= in place of >
TransferPath_inclusive(size) ==
    IF size >= get_chunk_size THEN "upload_file" ELSE "copy_check_tokens"

\* backup_file's choice of the transfer path: the pc value of the function it calls
TransferPath(size) ==
    IF size > get_chunk_size THEN "upload_file" ELSE "copy_check_tokens"

\* backup_file (lines 161-169)
BackupFile ==
    /\ pc = "backup_file"
    /\ Goto(TransferPath(cur.size))
    /\ UNCHANGED <<worldVars, passVars, cur, calls, applied>>

\* a request of the transfer that can only succeed or fail
Request(at, call, next, kind) ==
    /\ pc = at
    /\ Log(call)
    /\ \E ok \in BOOLEAN :
         IF ok THEN Goto(next) /\ UNCHANGED passVars
               ELSE Fail(kind)
    /\ UNCHANGED <<worldVars, cur, applied>>

\* copy_file, line 184
CopyCheckTokens == CheckTokensAt("copy_check_tokens", "copy_get_download_url")

\* copy_file, line 186
CopyGetDownloadUrl ==
    Request("copy_get_download_url", "get_download_url", "copy_get_file", "OneDrive")

\* copy_file, line 187: get_file; the body may be shorter or longer than size
CopyGetFile ==
    /\ pc = "copy_get_file"
    /\ Log("get_file")
    /\ \E resp \in {"content", "failed"}, len \in {cur.size, cur.size + 1} \cup {n \in {cur.size - 1} : n >= 0} :
         IF resp = "failed"
         THEN Fail("OneDrive")
         ELSE /\ upload' = [upload EXCEPT !.bytes = len, !.checked = FALSE]
              /\ Goto("copy_check_size")
              /\ UNCHANGED batchVars
    /\ UNCHANGED <<worldVars, cur, applied>>

\* copy_file as it would be without the test of content.len() against size
CopyCheckSize_absent ==
    /\ pc = "copy_check_size"
    /\ Goto("copy_put_object") /\ UNCHANGED passVars
    /\ UNCHANGED <<worldVars, cur, calls, applied>>

\* copy_file, lines 188-190: the length of the content against size
CopyCheckSize ==
    /\ pc = "copy_check_size"
    /\ IF upload.bytes # cur.size
       THEN Fail("OneDrive")
       ELSE Goto("copy_put_object") /\ UNCHANGED passVars
    /\ UNCHANGED <<worldVars, cur, calls, applied>>

\* copy_file's put_object as it would be if a failed request left no object
\* under the key
CopyPutObject_removing_on_error ==
    /\ pc = "copy_put_object"
    /\ Log("put_object")
    /\ \E ok \in BOOLEAN :
         IF ok
         THEN /\ bucket' = [bucket EXCEPT
                    ![cur.filename] = Some(StoredObject(upload.bytes, I64ToString(cur.mtime)))]
              /\ Done("copied")
         ELSE /\ Fail("AWS")
              /\ bucket' = [bucket EXCEPT ![cur.filename] = None]
              /\ UNCHANGED applied
    /\ UNCHANGED <<feed, cursor_file, tokens_file, cur>>

\* copy_file, line 192: put_object with the metadata mtime = mtime.to_string()
CopyPutObject ==
    /\ pc = "copy_put_object"
    /\ Log("put_object")
    /\ \E ok \in BOOLEAN :
         IF ok
         THEN /\ bucket' = [bucket EXCEPT
                    ![cur.filename] = Some(StoredObject(upload.bytes, I64ToString(cur.mtime)))]
              /\ Done("copied")
         ELSE Fail("AWS") /\ UNCHANGED <<bucket, applied>>
    /\ UNCHANGED <<feed, cursor_file, tokens_file, cur>>

\* upload_file as it would be with the capacity check left out
UploadFile_unchecked ==
    /\ pc = "upload_file"
    /\ Goto("upload_first_check_tokens") /\ UNCHANGED passVars
    /\ UNCHANGED <<worldVars, cur, calls, applied>>

\* upload_file, lines 210-211
UploadFile ==
    /\ pc = "upload_file"
    /\ IF check_for_multipart_upload(cur.size) = "ok"
       THEN Goto("upload_first_check_tokens") /\ UNCHANGED passVars
       ELSE Fail("AWS")
    /\ UNCHANGED <<worldVars, cur, calls, applied>>

\* upload_file, line 213: get_check_download_url(mgr, item_id, None), its check_tokens ...
UploadFirstCheckTokens == CheckTokensAt("upload_first_check_tokens", "upload_first_url")

\* ... and its get_download_url (line 246)
UploadFirstUrl ==
    Request("upload_first_url", "get_download_url", "create_multipart_upload", "OneDrive")

\* upload_file, lines 214-216: the upload session, tagged with mtime.to_string(),
\* and the chunk iterator
CreateMultipartUpload ==
    /\ pc = "create_multipart_upload"
    /\ Log("create_multipart_upload")
    /\ \E ok \in BOOLEAN :
         IF ok
         THEN /\ upload' = [upload EXCEPT !.chunk = Chunk_new(cur.size, get_chunk_size),
                                          !.range = None, !.bytes = 0, !.parts = <<>>,
                                          !.meta = Some(I64ToString(cur.mtime))]
              /\ Goto("upload_next")
              /\ UNCHANGED <<od_link, access, url, deltas, objects, idx, outcomes>>
         ELSE Fail("AWS")
    /\ UNCHANGED <<worldVars, cur, applied>>

\* upload_file, line 217: the for loop asks the iterator for the next chunk
UploadNext ==
    /\ pc = "upload_next"
    /\ LET r == Chunk_next(upload.chunk, overflow_checks)
       IN  /\ upload' = [upload EXCEPT !.chunk = r.c, !.range = r.item]
           /\ Goto(IF r.panic THEN "panic"
                   ELSE IF IsSome(r.item) THEN "upload_check_tokens"
                   ELSE "complete_multipart_upload")
    /\ UNCHANGED <<worldVars, od_link, access, url, deltas, objects, idx, outcomes, cur, calls, applied>>

\* get_check_download_url(.., Some(..)) as it would be without its check_tokens
UploadCheckTokens_skipped ==
    /\ pc = "upload_check_tokens"
    /\ Goto("upload_check_url")
    /\ UNCHANGED <<worldVars, passVars, cur, calls, applied>>

\* upload_file, line 218: get_check_download_url(.., Some((url, time))), its check_tokens ...
UploadCheckTokens == CheckTokensAt("upload_check_tokens", "upload_check_url")

\* the ages, in ticks, a download url is found to have: the limit and a tick past it
UrlAges == {URL_MAX_AGE * TicksPerSecond, URL_MAX_AGE * TicksPerSecond + 1}

\* the test as it would be with a limit of twice 1800 seconds
url_aged_late(age) == age > 2 * URL_MAX_AGE * TicksPerSecond

\* the test of get_check_download_url (line 239): Utc::now() - time > TimeDelta::seconds(1800)
url_aged(age) == age > URL_MAX_AGE * TicksPerSecond

\* ... and the age of the download url (lines 238-244): a url past the limit
\* is replaced by a new one
UploadCheckUrl ==
    /\ pc = "upload_check_url"
    /\ \E age \in UrlAges, ok \in BOOLEAN :
         IF ~url_aged(age)
         THEN /\ upload' = [upload EXCEPT !.url_age = age]
              /\ Goto("get_file_range")
              /\ UNCHANGED <<calls, batchVars>>
         ELSE /\ Log("get_download_url")
              /\ IF ok THEN /\ upload' = [upload EXCEPT !.url_age = 0]
                            /\ Goto("get_file_range")
                            /\ UNCHANGED batchVars
                       ELSE Fail("OneDrive")
    /\ UNCHANGED <<worldVars, cur, applied>>

\* upload_file, line 220: get_file_range(url, from, to); the body may be shorter
\* than the range asked for
GetFileRange ==
    /\ pc = "get_file_range"
    /\ Log("get_file_range")
    /\ LET want == Unwrap(upload.range)[3] - Unwrap(upload.range)[2] + 1
       IN  \E resp \in {"content", "failed"}, len \in {want, want - 1} :
             IF resp = "failed"
             THEN Fail("OneDrive")
             ELSE /\ upload' = [upload EXCEPT !.bytes = len, !.checked = FALSE]
                  /\ Goto("upload_part")
                  /\ UNCHANGED <<od_link, access, url, deltas, objects, idx, outcomes>>
    /\ UNCHANGED <<worldVars, cur, applied>>

\* upload_part as it would be if it put the CompletedPart in front of the list
UploadPart_prepending ==
    /\ pc = "upload_part"
    /\ Log("upload_part")
    /\ \E ok \in BOOLEAN :
         IF ok
         THEN /\ upload' = [upload EXCEPT
                    !.parts = <<[part_number |-> Unwrap(upload.range)[1],
                                 len |-> upload.bytes]>> \o @]
              /\ Goto("upload_next")
              /\ UNCHANGED <<od_link, access, url, deltas, objects, idx, outcomes>>
         ELSE Fail("AWS")
    /\ UNCHANGED <<worldVars, cur, applied>>

\* upload_file, line 221: upload_part pushes the CompletedPart of part_number
UploadPart ==
    /\ pc = "upload_part"
    /\ Log("upload_part")
    /\ \E ok \in BOOLEAN :
         IF ok
         THEN /\ upload' = [upload EXCEPT
                    !.parts = Append(@, [part_number |-> Unwrap(upload.range)[1],
                                         len |-> upload.bytes])]
              /\ Goto("upload_next")
              /\ UNCHANGED <<od_link, access, url, deltas, objects, idx, outcomes>>
         ELSE Fail("AWS")
    /\ UNCHANGED <<worldVars, cur, applied>>

RECURSIVE PartsLen(_)
PartsLen(parts) == IF parts = <<>> THEN 0 ELSE parts[1].len + PartsLen(Tail(parts))

\* what S3 asks of the part list of CompleteMultipartUpload: it is not empty
\* and its part numbers ascend; they need not be consecutive
S3Accepts(parts) ==
    /\ parts # <<>>
    /\ \A i \in 1..(Len(parts) - 1) : parts[i].part_number < parts[i + 1].part_number

\* upload_file, line 223: complete_multipart_upload sends the list as it is;
\* S3 assembles the object from the parts listed, with the metadata of the session
CompleteMultipartUpload ==
    /\ pc = "complete_multipart_upload"
    /\ Log("complete_multipart_upload")
    /\ \E ok \in BOOLEAN :
         IF ok /\ S3Accepts(upload.parts)
         THEN /\ bucket' = [bucket EXCEPT
                    ![cur.filename] = Some([size |-> PartsLen(upload.parts), meta |-> upload.meta])]
              /\ Done("uploaded")
         ELSE Fail("AWS") /\ UNCHANGED <<bucket, applied>>
    /\ UNCHANGED <<feed, cursor_file, tokens_file, cur>>

-----------------------------------------------------------------------------
(* token_manager.rs: the credential set, its expiry and its refresh         *)

\* TokensImport: answer number g of the authority, reporting lifetime seconds
TokensImport(g, lifetime) ==
    [token_type |-> <<"token_type", g>>, scope |-> <<"scope", g>>,
     expires_in |-> lifetime, ext_expires_in |-> lifetime + g,
     access_token |-> <<"access_token", g>>, refresh_token |-> <<"refresh_token", g>>]

\* the expires_in values the authority reports
Lifetimes == {0, 1000, 3600}

\* the Tokens from_code builds from import at time at (lines 59-71)
from_code(import, at) ==
    [token_type |-> import.token_type, scope |-> import.scope,
     expires_in |-> import.expires_in, ext_expires_in |-> import.ext_expires_in,
     access_token |-> import.access_token, refresh_token |-> import.refresh_token,
     granted_at |-> at, refreshed_at |-> at]

\* serde_json::to_string(&self): the fields in the order of the struct
to_json(t) ==
    <<t.token_type, t.scope, t.expires_in, t.ext_expires_in, t.access_token,
      t.refresh_token, t.granted_at, t.refreshed_at>>

\* serde_json::from_str::<Tokens>
from_json(j) ==
    [token_type |-> j[1], scope |-> j[2], expires_in |-> j[3], ext_expires_in |-> j[4],
     access_token |-> j[5], refresh_token |-> j[6], granted_at |-> j[7], refreshed_at |-> j[8]]

\* TimeDelta::num_seconds: the whole seconds of d ticks, truncated toward zero
num_seconds(d) ==
    IF d >= 0 THEN d \div TicksPerSecond ELSE -((-d) \div TicksPerSecond)

\* is_expired as it would be if it measured from granted_at
is_expired_since_grant(t, clock) ==
    LET age == num_seconds(clock - t.granted_at)
    IN  age > t.expires_in \/ age > TOKEN_MAX_AGE

\* is_expired, with Utc::now() = clock
is_expired(t, clock) ==
    LET age == num_seconds(clock - t.refreshed_at)
    IN  age > t.expires_in \/ age > TOKEN_MAX_AGE

\* the assignments of refresh_tokens as they would be without the one to refresh_token
rotated_keeping_refresh_token(t, import, clock) ==
    [t EXCEPT !.token_type = import.token_type, !.scope = import.scope,
              !.expires_in = import.expires_in, !.ext_expires_in = import.ext_expires_in,
              !.access_token = import.access_token,
              !.refreshed_at = clock]

\* the assignments of refresh_tokens (lines 173-179)
rotated(t, import, clock) ==
    [t EXCEPT !.token_type = import.token_type, !.scope = import.scope,
              !.expires_in = import.expires_in, !.ext_expires_in = import.ext_expires_in,
              !.access_token = import.access_token, !.refresh_token = import.refresh_token,
              !.refreshed_at = clock]

\* the number of the authority's answer the set holds
Generation(t) == t.access_token[2]

NoImport == TokensImport(0, 0)
NoCall == [call |-> "none", resp |-> "none", import |-> NoImport, ret |-> "none"]

\* seconds at which the clock is read
SecondMarks ==
    {0, 100, 1000, 1001, 1800, 1801, 1900, 2000, 3600, 3601}
TimePoints == {m * TicksPerSecond + f : m \in SecondMarks, f \in 0..(TicksPerSecond - 1)}

\* time passes
TokenTick ==
    /\ \E t \in TimePoints : t > now /\ now' = t
    /\ token_result' = NoCall
    /\ UNCHANGED <<tokens, tokens_store>>

\* a call of is_expired
IsExpired ==
    /\ token_result' = [call |-> "is_expired", resp |-> "none", import |-> NoImport,
                        ret |-> IF is_expired(tokens, now) THEN "true" ELSE "false"]
    /\ UNCHANGED <<tokens, tokens_store, now>>

\* refresh_tokens as it would be if every failed attempt removed the tokens file
refresh_tokens_removing_on_any_error ==
    /\ \E resp \in {"success", "rejected", "unreachable", "garbled"},
          lifetime \in Lifetimes, disk \in BOOLEAN :
         LET import == TokensImport(Generation(tokens) + 1, lifetime)
             answer(imp, ret) == [call |-> "refresh_tokens", resp |-> resp,
                                  import |-> imp, ret |-> ret]
         IN  CASE resp \in {"rejected", "unreachable", "garbled"} ->
                    IF IsSome(tokens_store) /\ disk
                    THEN /\ tokens_store' = None
                         /\ token_result' = answer(NoImport, "RefreshTokenExpired")
                         /\ UNCHANGED tokens
                    ELSE /\ token_result' = answer(NoImport, "FileIO")
                         /\ UNCHANGED <<tokens, tokens_store>>
               [] resp = "success" ->
                    /\ Generation(tokens) < MaxGrants
                    /\ tokens' = rotated(tokens, import, now)
                    /\ IF disk
                       THEN /\ tokens_store' = Some(to_json(rotated(tokens, import, now)))
                            /\ token_result' = answer(import, "Ok")
                       ELSE /\ token_result' = answer(import, "FileIO")
                            /\ UNCHANGED tokens_store
    /\ UNCHANGED now

\* a call of refresh_tokens. resp = what the authority does with the request,
\* lifetime = the expires_in of its answer, disk = whether the file operation
\* of remove_tokens / save_tokens succeeds where the file system allows it
refresh_tokens ==
    /\ \E resp \in {"success", "rejected", "unreachable", "garbled"},
          lifetime \in Lifetimes, disk \in BOOLEAN :
         LET import == TokensImport(Generation(tokens) + 1, lifetime)
             answer(imp, ret) == [call |-> "refresh_tokens", resp |-> resp,
                                  import |-> imp, ret |-> ret]
         IN  CASE resp = "unreachable" ->
                    /\ token_result' = answer(NoImport, "Request")
                    /\ UNCHANGED <<tokens, tokens_store>>
               [] resp = "rejected" ->
                    IF IsSome(tokens_store) /\ disk
                    THEN /\ tokens_store' = None
                         /\ token_result' = answer(NoImport, "RefreshTokenExpired")
                         /\ UNCHANGED tokens
                    ELSE /\ token_result' = answer(NoImport, "FileIO")
                         /\ UNCHANGED <<tokens, tokens_store>>
               [] resp = "garbled" ->
                    /\ token_result' = answer(NoImport, "FileIO")
                    /\ UNCHANGED <<tokens, tokens_store>>
               [] resp = "success" ->
                    /\ Generation(tokens) < MaxGrants
                    /\ tokens' = rotated(tokens, import, now)
                    /\ IF disk
                       THEN /\ tokens_store' = Some(to_json(rotated(tokens, import, now)))
                            /\ token_result' = answer(import, "Ok")
                       ELSE /\ token_result' = answer(import, "FileIO")
                            /\ UNCHANGED tokens_store
    /\ UNCHANGED now

\* the file at tokens_path is removed from outside the process
TokensFileRemoved ==
    /\ IsSome(tokens_store)
    /\ tokens_store' = None
    /\ token_result' = NoCall
    /\ UNCHANGED <<tokens, now>>

-----------------------------------------------------------------------------
(* token_manager.rs: Tokens::from_file (lines 84-103)                        *)

\* what the file at tokens_path holds when serde_json cannot read it as Tokens
Garbled == <<"{">>

\* serde_json::from_str::<Tokens>(&json) returns Ok
parses(j) == Len(j) = 8

\* a counter of the history, kept finite: it stops counting at MaxPolls
Counted(n) == IF n < MaxPolls THEN n + 1 ELSE n

\* loading: pc      "idle" | "exists" (at line 88) | "read" (at line 89) |
\*                  "sleep" (in the sleep of line 99) | "returned" | "failed"
\*          file_warning_issued   the local of that name
\*          warnings the warn! lines written by this call
\*          polls   the sleeps of line 99 begun by this call
\*          sleep   the seconds of the sleep in progress
\*          cause   why the call failed: "absent" (no file to read) | "unreadable"
NoLoading ==
    [pc |-> "idle", file_warning_issued |-> FALSE, warnings |-> 0, polls |-> 0,
     sleep |-> 0, cause |-> "none"]

\* lines 88 and 94-100 as they would be if the flag were never set
FromFileExists_rewarning ==
    /\ loading.pc = "exists"
    /\ IF IsSome(tokens_store)
       THEN loading' = [loading EXCEPT !.pc = "read"]
       ELSE loading' = [loading EXCEPT !.pc = "sleep",
                                       !.warnings = Counted(@),
                                       !.polls = Counted(@),
                                       !.sleep = POLL_SECS]
    /\ UNCHANGED <<tokens, tokens_store, now, token_result, alarm>>

\* lines 88 and 94-100: path.exists(); when it is false the warning, once, and
\* the sleep
FromFileExists ==
    /\ loading.pc = "exists"
    /\ IF IsSome(tokens_store)
       THEN loading' = [loading EXCEPT !.pc = "read"]
       ELSE loading' = [loading EXCEPT !.pc = "sleep",
                                       !.file_warning_issued = TRUE,
                                       !.warnings = IF loading.file_warning_issued
                                                    THEN @ ELSE Counted(@),
                                       !.polls = Counted(@),
                                       !.sleep = POLL_SECS]
    /\ UNCHANGED <<tokens, tokens_store, now, token_result, alarm>>

\* lines 89-92: read_to_string and from_str, each returning its error with `?`
FromFileRead ==
    /\ loading.pc = "read"
    /\ IF ~IsSome(tokens_store)
       THEN /\ loading' = [loading EXCEPT !.pc = "failed", !.cause = "absent"]
            /\ UNCHANGED tokens
       ELSE IF ~parses(Unwrap(tokens_store))
       THEN /\ loading' = [loading EXCEPT !.pc = "failed", !.cause = "unreadable"]
            /\ UNCHANGED tokens
       ELSE /\ loading' = [loading EXCEPT !.pc = "returned"]
            /\ tokens' = from_json(Unwrap(tokens_store))
    /\ UNCHANGED <<tokens_store, now, token_result, alarm>>

\* lines 99-100: the sleep ends and the loop starts over
FromFileSleepEnds ==
    /\ loading.pc = "sleep"
    /\ loading' = [loading EXCEPT !.pc = "exists", !.sleep = 0]
    /\ UNCHANGED <<tokens, tokens_store, now, token_result, alarm>>

\* main.rs 35-42: the /code endpoint runs Tokens::from_code, which saves the
\* Tokens it built to the file at tokens_path (token_manager.rs 39-75)
CodeReceived ==
    /\ \E lifetime \in Lifetimes :
         LET g == IF IsSome(tokens_store) /\ parses(Unwrap(tokens_store))
                  THEN Generation(from_json(Unwrap(tokens_store))) + 1
                  ELSE 1
         IN  /\ g <= MaxGrants
             /\ tokens_store' = Some(to_json(from_code(TokensImport(g, lifetime), now)))
    /\ UNCHANGED <<tokens, now, token_result, loading, alarm>>

-----------------------------------------------------------------------------
(* cloud_sync.rs: sleep_until_time (lines 100-111)                           *)

\* alarm: pc          "idle" | "called" | "sleeping" | "returned" | "panic"
\*        time        the configured time of day, in seconds after midnight
\*        called_at   Local::now() of line 101, in ticks
\*        proposed    the local of that name, in ticks
\*        deadline    the Instant handed to sleep_until, in ticks
\*        returned_at the time at which the call returned, in ticks
\*        gap         with_time has no single answer for time on the current day
NoAlarm ==
    [pc |-> "idle", time |-> 0, gap |-> FALSE, called_at |-> 0, proposed |-> 0,
     deadline |-> 0, returned_at |-> 0]

\* local time is counted in ticks from the midnight that begins day 0
DayTicks == DaySecs * TicksPerSecond

\* Local::now().with_time(time): the date of clock at time of day time
with_time(clock, time) == (clock \div DayTicks) * DayTicks + time * TicksPerSecond

\* lines 101-110 up to the await. later = the ticks between Local::now() of
\* line 101 and the clock readings of lines 102 and 110
SleepUntilTime ==
    /\ alarm.pc = "called"
    /\ \E later \in {0, 1} :
         LET at == now
             today == with_time(now + later, alarm.time)
             proposed == IF today <= at THEN today + DayTicks ELSE today
             duration_as_secs == num_seconds(proposed - at)
         IN  /\ now' = now + later
             /\ IF alarm.gap
                THEN alarm' = [alarm EXCEPT !.pc = "panic", !.called_at = at]
                ELSE alarm' = [alarm EXCEPT !.pc = "sleeping", !.called_at = at,
                                            !.proposed = proposed,
                                            !.deadline = now + later
                                                         + duration_as_secs * TicksPerSecond]
    /\ UNCHANGED <<tokens, tokens_store, token_result, loading>>

\* time passes while the task sleeps
SleepTick ==
    /\ alarm.pc = "sleeping"
    /\ now <= alarm.deadline
    /\ now' = now + 1
    /\ UNCHANGED <<tokens, tokens_store, token_result, loading, alarm>>

\* sleep_until(deadline) returns, at the deadline or after it
SleepReturns ==
    /\ alarm.pc = "sleeping"
    /\ now >= alarm.deadline
    /\ alarm' = [alarm EXCEPT !.pc = "returned", !.returned_at = now]
    /\ UNCHANGED <<tokens, tokens_store, now, token_result, loading>>

-----------------------------------------------------------------------------
(* Spec: the sync task from the start of the process, the source changing   *)
(* and the operator authorizing beside it                                   *)

EmptyBucket == [k \in Items |-> None]

\* the bucket at the start: empty, or holding an object written without the
\* mtime metadata
InitBuckets ==
    {EmptyBucket,
     [EmptyBucket EXCEPT !["a"] = Some([size |-> CHUNK_SIZE, meta |-> None])]}

\* the sync task before its first sleep, nothing fetched
SyncStart ==
    /\ pc = "sleep_51"
    /\ result = "none"
    /\ od_link = EmptyLink
    /\ url = RootUrl
    /\ deltas = <<>>
    /\ objects = {}
    /\ idx = 0
    /\ cur = NoFile
    /\ upload = NoUpload
    /\ calls = {}
    /\ outcomes = <<>>
    /\ applied = {}
    /\ retry = FALSE
    /\ access = NoAccess

\* the sync variables while the chunk iterator is driven on its own
SyncIdle ==
    /\ feed = <<>>
    /\ bucket = EmptyBucket
    /\ cursor_file = None
    /\ tokens_file = FALSE
    /\ SyncStart

\* the chunk variables while the sync task runs: its iterator lives in upload.chunk,
\* built only for sizes the capacity check accepted, where no build overflows
ChunkIdle ==
    /\ chunk = Chunk_new(0, 0)
    /\ plan = <<>>
    /\ chunk_pc = "idle"
    /\ overflow_checks = TRUE

\* the token variables while Tokens is not driven on its own
TokenIdle ==
    /\ tokens = from_code(NoImport, 0)
    /\ tokens_store = None
    /\ now = 0
    /\ token_result = NoCall

\* no call of from_file or sleep_until_time is driven on its own
CallsIdle ==
    /\ loading = NoLoading
    /\ alarm = NoAlarm

Init ==
    /\ feed = <<>>
    /\ bucket \in InitBuckets
    /\ cursor_file = None
    /\ tokens_file = FALSE
    /\ SyncStart
    /\ ChunkIdle
    /\ TokenIdle
    /\ CallsIdle
    /\ mail = NoMail

Next ==
    \/ Wake /\ UNCHANGED unitVars
    \/ FromFile /\ UNCHANGED unitVars
    \/ Authorize /\ UNCHANGED unitVars
    \/ SyncCheckTokens /\ UNCHANGED unitVars
    \/ GetDeltaStart /\ UNCHANGED unitVars
    \/ GetDeltaPage /\ UNCHANGED unitVars
    \/ GetDeltaFailed /\ UNCHANGED unitVars
    \/ ListObjects /\ UNCHANGED unitVars
    \/ Reconcile /\ UNCHANGED unitVars
    \/ BackupFile /\ UNCHANGED unitVars
    \/ CopyCheckTokens /\ UNCHANGED unitVars
    \/ CopyGetDownloadUrl /\ UNCHANGED unitVars
    \/ CopyGetFile /\ UNCHANGED unitVars
    \/ CopyCheckSize /\ UNCHANGED unitVars
    \/ CopyPutObject /\ UNCHANGED unitVars
    \/ UploadFile /\ UNCHANGED unitVars
    \/ UploadFirstCheckTokens /\ UNCHANGED unitVars
    \/ UploadFirstUrl /\ UNCHANGED unitVars
    \/ CreateMultipartUpload /\ UNCHANGED unitVars
    \/ UploadNext /\ UNCHANGED unitVars
    \/ UploadCheckTokens /\ UNCHANGED unitVars
    \/ UploadCheckUrl /\ UNCHANGED unitVars
    \/ GetFileRange /\ UNCHANGED unitVars
    \/ UploadPart /\ UNCHANGED unitVars
    \/ CompleteMultipartUpload /\ UNCHANGED unitVars
    \/ SaveDeltaLink /\ UNCHANGED unitVars
    \/ SourceChange /\ UNCHANGED unitVars
    \/ Restart /\ UNCHANGED unitVars

Spec == Init /\ [][Next]_vars

-----------------------------------------------------------------------------
(* UploadSpec: upload_file called on a file record of every size 0..MaxSize *)

UploadInit ==
    /\ \E item \in Items, size \in 0..MaxSize, mtime \in Mtimes :
         /\ feed = <<FileValue(item, size, mtime)>>
         /\ cur = item_info(FileValue(item, size, mtime), 1)
         /\ deltas = <<item_info(FileValue(item, size, mtime), 1)>>
    /\ bucket \in InitBuckets
    /\ objects = list_objects(bucket)
    /\ cursor_file = None
    /\ tokens_file = TRUE
    /\ pc = "upload_file"
    /\ result = "none"
    /\ od_link = 1
    /\ access = OneDrive_new(LoadedToken)
    /\ url = RootUrl
    /\ idx = 1
    /\ upload = NoUpload
    /\ calls = {}
    /\ outcomes = <<>>
    /\ applied = {}
    /\ retry = FALSE
    /\ ChunkIdle
    /\ TokenIdle
    /\ CallsIdle
    /\ mail = NoMail

UploadNextStep ==
    \/ UploadFile /\ UNCHANGED unitVars
    \/ UploadFirstCheckTokens /\ UNCHANGED unitVars
    \/ UploadFirstUrl /\ UNCHANGED unitVars
    \/ CreateMultipartUpload /\ UNCHANGED unitVars
    \/ UploadNext /\ UNCHANGED unitVars
    \/ UploadCheckTokens /\ UNCHANGED unitVars
    \/ UploadCheckUrl /\ UNCHANGED unitVars
    \/ GetFileRange /\ UNCHANGED unitVars
    \/ UploadPart /\ UNCHANGED unitVars
    \/ CompleteMultipartUpload /\ UNCHANGED unitVars

UploadSpec == UploadInit /\ [][UploadNextStep]_vars

-----------------------------------------------------------------------------
(* CopySpec: copy_file called on a file record of every size 0..MaxSize     *)

CopyInit ==
    /\ \E item \in Items, size \in 0..MaxSize, mtime \in Mtimes :
         /\ feed = <<FileValue(item, size, mtime)>>
         /\ cur = item_info(FileValue(item, size, mtime), 1)
         /\ deltas = <<item_info(FileValue(item, size, mtime), 1)>>
    /\ bucket \in InitBuckets
    /\ objects = list_objects(bucket)
    /\ cursor_file = None
    /\ tokens_file = TRUE
    /\ pc = "copy_check_tokens"
    /\ result = "none"
    /\ od_link = 1
    /\ access = OneDrive_new(LoadedToken)
    /\ url = RootUrl
    /\ idx = 1
    /\ upload = NoUpload
    /\ calls = {}
    /\ outcomes = <<>>
    /\ applied = {}
    /\ retry = FALSE
    /\ ChunkIdle
    /\ TokenIdle
    /\ CallsIdle
    /\ mail = NoMail

CopyNext ==
    \/ CopyCheckTokens /\ UNCHANGED unitVars
    \/ CopyGetDownloadUrl /\ UNCHANGED unitVars
    \/ CopyGetFile /\ UNCHANGED unitVars
    \/ CopyCheckSize /\ UNCHANGED unitVars
    \/ CopyPutObject /\ UNCHANGED unitVars

CopySpec == CopyInit /\ [][CopyNext]_vars

-----------------------------------------------------------------------------
(* CompleteSpec: complete_multipart_upload called with every list of up to  *)
(* MaxParts CompletedParts numbered 1..MaxParts                             *)

RECURSIVE PartLists(_)
PartLists(n) ==
    IF n = 0 THEN {<<>>}
    ELSE PartLists(n - 1) \cup
         {Append(l, [part_number |-> k, len |-> 1]) :
              l \in {m \in PartLists(n - 1) : Len(m) = n - 1}, k \in 1..MaxParts}

CompleteInit ==
    /\ \E item \in Items, mtime \in Mtimes, parts \in PartLists(MaxParts) :
         /\ feed = <<FileValue(item, MaxParts, mtime)>>
         /\ cur = item_info(FileValue(item, MaxParts, mtime), 1)
         /\ deltas = <<item_info(FileValue(item, MaxParts, mtime), 1)>>
         /\ upload = [NoUpload EXCEPT !.parts = parts, !.meta = Some(I64ToString(mtime))]
    /\ bucket \in InitBuckets
    /\ objects = list_objects(bucket)
    /\ cursor_file = None
    /\ tokens_file = TRUE
    /\ pc = "complete_multipart_upload"
    /\ result = "none"
    /\ od_link = 1
    /\ access = OneDrive_new(LoadedToken)
    /\ url = RootUrl
    /\ idx = 1
    /\ calls = {}
    /\ outcomes = <<>>
    /\ applied = {}
    /\ retry = FALSE
    /\ ChunkIdle
    /\ TokenIdle
    /\ CallsIdle
    /\ mail = NoMail

CompleteNext == CompleteMultipartUpload /\ UNCHANGED unitVars

CompleteSpec == CompleteInit /\ [][CompleteNext]_vars

-----------------------------------------------------------------------------
(* ReconcileSpec: one turn of the for loop of sync_loop on every drawn      *)
(* source record, inventory entry and destination object                    *)

\* texts of the "mtime" metadata: none, the timestamps the program writes, a
\* timestamp with a fraction, an empty text and a text that is no number
MetaTexts ==
    {None} \cup {Some(I64ToString(m)) : m \in Mtimes}
           \cup {Some(I64ToString(m) \o <<".", "5">>) : m \in Mtimes}
           \cup {Some(<<>>), Some(<<"x">>)}

ReconcileInit ==
    /\ \E size \in 0..MaxSize, mtime \in Mtimes :
         /\ feed = <<FileValue("a", size, mtime)>>
         /\ deltas = <<item_info(FileValue("a", size, mtime), 1)>>
    /\ \E head \in {None} \cup {Some([size |-> s, meta |-> m]) : s \in {0, CHUNK_SIZE}, m \in MetaTexts} :
         bucket = [EmptyBucket EXCEPT !["a"] = head]
    /\ objects \in {{}} \cup {{[filename |-> "a", size |-> ts]} :
                                 ts \in {None} \cup {Some(s) : s \in 0..MaxSize}}
    /\ cursor_file = None
    /\ tokens_file = TRUE
    /\ pc = "reconcile"
    /\ result = "none"
    /\ od_link = 1
    /\ access = OneDrive_new(LoadedToken)
    /\ url = RootUrl
    /\ idx = 1
    /\ cur = NoFile
    /\ upload = NoUpload
    /\ calls = {}
    /\ outcomes = <<>>
    /\ applied = {}
    /\ retry = FALSE
    /\ ChunkIdle
    /\ TokenIdle
    /\ CallsIdle
    /\ mail = NoMail

ReconcileNext == Reconcile /\ UNCHANGED unitVars

ReconcileSpec == ReconcileInit /\ [][ReconcileNext]_vars

-----------------------------------------------------------------------------
(* TokenSpec: a Tokens built by from_code at time 0, then is_expired and    *)
(* refresh_tokens called on it while time passes                            *)

TokenInit ==
    /\ \E lifetime \in Lifetimes : tokens = from_code(TokensImport(0, lifetime), 0)
    /\ tokens_store = Some(to_json(tokens))
    /\ now = 0
    /\ token_result = NoCall
    /\ SyncIdle
    /\ ChunkIdle
    /\ CallsIdle
    /\ mail = NoMail

TokenNext ==
    \/ TokenTick /\ UNCHANGED <<mailVars, chunkVars, syncVars, callVars>>
    \/ IsExpired /\ UNCHANGED <<mailVars, chunkVars, syncVars, callVars>>
    \/ refresh_tokens /\ UNCHANGED <<mailVars, chunkVars, syncVars, callVars>>
    \/ TokensFileRemoved /\ UNCHANGED <<mailVars, chunkVars, syncVars, callVars>>

TokenSpec == TokenInit /\ [][TokenNext]_vars

-----------------------------------------------------------------------------
(* SleepSpec: sleep_until_time called at every tick of day 0 with every     *)
(* time of day of whole seconds                                             *)

SleepInit ==
    /\ now \in 0..(DayTicks - 1)
    /\ \E time \in 0..(DaySecs - 1), gap \in BOOLEAN :
         alarm = [NoAlarm EXCEPT !.pc = "called", !.time = time, !.gap = gap]
    /\ tokens = from_code(NoImport, 0)
    /\ tokens_store = None
    /\ token_result = NoCall
    /\ loading = NoLoading
    /\ mail = NoMail
    /\ SyncIdle
    /\ ChunkIdle

SleepNext ==
    \/ SleepUntilTime /\ UNCHANGED <<mailVars, chunkVars, syncVars>>
    \/ SleepTick /\ UNCHANGED <<mailVars, chunkVars, syncVars>>
    \/ SleepReturns /\ UNCHANGED <<mailVars, chunkVars, syncVars>>

SleepSpec == SleepInit /\ [][SleepNext]_vars

-----------------------------------------------------------------------------
(* FromFileSpec: one call of Tokens::from_file on every state of the file   *)
(* at tokens_path, the /code endpoint answering beside it.  Nothing in the   *)
(* process removes the file during the call: remove_tokens is reached from   *)
(* check_tokens only, in the task that is inside from_file.  The task is     *)
(* scheduled again whenever a sleep of it has ended, hence the fairness.     *)

FromFileInit ==
    /\ tokens = from_code(NoImport, 0)
    /\ \/ tokens_store \in {None, Some(Garbled)}
       \/ \E lifetime \in Lifetimes :
            tokens_store = Some(to_json(from_code(TokensImport(0, lifetime), 0)))
    /\ now = 0
    /\ token_result = NoCall
    /\ loading = [NoLoading EXCEPT !.pc = "exists"]
    /\ alarm = NoAlarm
    /\ mail = NoMail
    /\ SyncIdle
    /\ ChunkIdle

FromFileStep ==
    \/ FromFileExists /\ UNCHANGED <<mailVars, chunkVars, syncVars>>
    \/ FromFileRead /\ UNCHANGED <<mailVars, chunkVars, syncVars>>
    \/ FromFileSleepEnds /\ UNCHANGED <<mailVars, chunkVars, syncVars>>

FromFileNext ==
    \/ FromFileExists /\ UNCHANGED <<mailVars, chunkVars, syncVars>>
    \/ FromFileRead /\ UNCHANGED <<mailVars, chunkVars, syncVars>>
    \/ FromFileSleepEnds /\ UNCHANGED <<mailVars, chunkVars, syncVars>>
    \/ CodeReceived /\ UNCHANGED <<mailVars, chunkVars, syncVars>>

FromFileSpec == FromFileInit /\ [][FromFileNext]_vars /\ WF_vars(FromFileStep)

-----------------------------------------------------------------------------
(* ChunkSpec: Chunk::new(size, chunk_size) for every drawn pair, then       *)
(* next() called again and again, also after it has returned None.         *)

ChunkInit ==
    /\ \E size \in 0..MaxSize, chunk_size \in 1..MaxChunkSize :
           chunk = Chunk_new(size, chunk_size)
    /\ plan = <<>>
    /\ chunk_pc = "iter"
    /\ overflow_checks \in BOOLEAN
    /\ SyncIdle
    /\ TokenIdle
    /\ CallsIdle
    /\ mail = NoMail

ChunkNext ==
    /\ chunk_pc \in {"iter", "done"}
    /\ Len(plan) < MaxEmit
    /\ LET r == Chunk_next(chunk, overflow_checks)
       IN  /\ chunk' = r.c
           /\ plan' = IF IsSome(r.item) THEN Append(plan, Unwrap(r.item)) ELSE plan
           /\ chunk_pc' = IF r.panic THEN "panic"
                          ELSE IF IsSome(r.item) THEN "iter" ELSE "done"
    /\ UNCHANGED overflow_checks
    /\ UNCHANGED syncVars
    /\ UNCHANGED tokenVars
    /\ UNCHANGED callVars
    /\ UNCHANGED mailVars

ChunkSpec == ChunkInit /\ [][ChunkNext]_vars

-----------------------------------------------------------------------------
(* Claims about the chunk iterator and the capacity check (ChunkSpec)       *)

Ceil(a, b) == (a + b - 1) \div b

\* the entries <<part, from, to>> of p tile [0, size-1] in order, each at most chunk_size long
RangesCover(p, size, chunk_size) ==
    /\ Len(p) >= 1
    /\ p[1][2] = 0
    /\ p[Len(p)][3] = size - 1
    /\ \A i \in 1..Len(p) : p[i][2] <= p[i][3] /\ p[i][3] - p[i][2] + 1 <= chunk_size
    /\ \A i \in 1..(Len(p) - 1) : p[i + 1][2] = p[i][3] + 1

\* C5: for all size > 0 and chunk_size > 0 the ranges produced by iterating
\* Chunk::new(size, chunk_size) are contiguous, start at byte 0, end at byte
\* size - 1 and are each at most chunk_size bytes long.
C5_PlanCoversFile ==
    (chunk.size > 0 /\ chunk_pc = "done") =>
        RangesCover(plan, chunk.size, chunk.chunk_size)

\* C6: for all size > 0 and chunk_size > 0 the iterator produces exactly
\* ceil(size / chunk_size) entries, numbered 1, 2, ..., n in that order, and
\* returns None from then on.
C6_PlanCountAndParts ==
    chunk.size > 0 =>
        /\ chunk_pc # "panic"
        /\ \A i \in 1..Len(plan) : plan[i][1] = i
        /\ Len(plan) <= Ceil(chunk.size, chunk.chunk_size)
        /\ chunk_pc = "done" => Len(plan) = Ceil(chunk.size, chunk.chunk_size)

\* C7: for every file size the part count check_for_multipart_upload computes
\* equals the number of entries the iterator produces for (size, CHUNK_SIZE).
C7_CheckAgreesWithPlan ==
    (chunk.chunk_size = CHUNK_SIZE /\ chunk_pc = "done") =>
        Len(plan) = ChunkCount(chunk.size)

\* C8: for size = 0 the iterator produces no entry, and neither overflows nor
\* produces ranges beyond the file.
C8_ZeroSizeYieldsNothing ==
    chunk.size = 0 => (plan = <<>> /\ chunk_pc # "panic")

-----------------------------------------------------------------------------
(* Properties of the sync task                                              *)

\* the position get_delta starts from: the persisted cursor, else the feed root
PersistedUrl == IF IsSome(cursor_file) THEN Unwrap(cursor_file) ELSE RootUrl

\* the change-log positions delivered in deltas
DeliveredSeqs == {deltas[i].seq : i \in 1..Len(deltas)}

\* the change-log positions after lo up to hi whose records get_delta keeps
QualifyingSeqs(lo, hi) == {p \in (lo + 1)..hi : p <= Len(feed) /\ Qualifies(feed[p])}

\* every record of the batch has been through the for loop, and each file that
\* was transferred has its object in the bucket
BatchApplied ==
    /\ Len(outcomes) = Len(deltas)
    /\ \A i \in 1..Len(deltas) :
         /\ outcomes[i].how \in {"not_a_file", "not_needed", "copied", "uploaded"}
         /\ deltas[i].file => outcomes[i].how # "not_a_file"
         /\ outcomes[i].how \in {"copied", "uploaded"} =>
              /\ IsSome(get_object_info(bucket, deltas[i].filename))
              /\ IsSome(Unwrap(get_object_info(bucket, deltas[i].filename)).mtime)

\* C1: the cursor file changes only in a step of save_delta_link at the end of a
\* pass, to the in-memory cursor that get_delta stored after reading every page
\* from the persisted cursor up to the deltaLink page, and only when every record
\* of the batch has been handled and every transfer that was needed has
\* succeeded; no step of get_delta changes the file.
C1_CursorWrittenOnlyAtPassEnd ==
    [][cursor_file' # cursor_file =>
         /\ pc = "save_delta_link"
         /\ pc' = "sleep_89"
         /\ cursor_file' = Some(od_link)
         /\ od_link # EmptyLink
         /\ DeliveredSeqs = QualifyingSeqs(PersistedUrl, od_link)
         /\ BatchApplied]_vars

\* a pass has ended with a write of the cursor after a transfer
C1_Witness ==
    /\ pc = "sleep_89"
    /\ result = "ok"
    /\ cursor_file = Some(od_link)
    /\ od_link >= 1
    /\ "put_object" \in calls \/ "complete_multipart_upload" \in calls

\* no file record at or before the persisted cursor has been left unhandled
NoRecordLost ==
    \A p \in 1..PersistedUrl :
        (p <= Len(feed) /\ Qualifies(feed[p]) /\ feed[p].file) => p \in applied

\* C2: every get_delta starts at the persisted cursor (the feed root when none
\* was persisted), whatever a failed or stopped pass had fetched; the batch it
\* returns holds every qualifying record after that cursor, and no file record at
\* or before the persisted cursor was left unhandled.
C2_ResumeFromPersistedCursor ==
    [][/\ (pc = "get_delta" /\ pc' = "get_delta_page") => url' = PersistedUrl
       /\ (pc' = "get_delta_page") => DeliveredSeqs' = QualifyingSeqs(PersistedUrl, url)'
       /\ (pc' \in AfterDelta) => DeliveredSeqs' = QualifyingSeqs(PersistedUrl, od_link)'
       /\ NoRecordLost']_vars

\* after a pass that failed or was stopped between get_delta and save_delta_link,
\* get_delta has delivered again a record the failed pass had already handled
C2_Witness ==
    /\ retry
    /\ pc = "list_objects"
    /\ \E i \in 1..Len(deltas) : deltas[i].file /\ deltas[i].seq \in applied

\* the destination object of record f exists and get_object_info reads the
\* modification timestamp of f from its metadata
DestinationMatches(f) ==
    /\ IsSome(get_object_info(bucket, f.filename))
    /\ Unwrap(get_object_info(bucket, f.filename)).mtime = Some(f.mtime)

\* C3: no transfer is started for a record while the destination object carries
\* the record's modification timestamp.
C3_ReprocessingIsNoOp ==
    pc = "backup_file" => ~DestinationMatches(cur)

\* the stated policy for the file record f, the inventory objs and the bucket b
Policy(f, objs, b) ==
    LET match  == {o \in objs : o.filename = f.filename}
        stored == get_mtime(b, f.filename)
    IN  IF match = {} THEN TRUE
        ELSE IF IsSome(stored) THEN Unwrap(stored) # f.mtime
        ELSE /\ f.size # 0
             /\ \A o \in match : o.size = None \/ Unwrap(o.size) # f.size

CapacityOk(size) == size # 0 /\ Ceil(size, CHUNK_SIZE) <= MAX_CHUNKS

\* C9: upload_file on a size of zero or of more than MAX_CHUNKS parts returns
\* the AWS error before any call is made (no credential check, download url,
\* upload session, range read or part); on any other size it is not rejected
\* before its first call.
C9_CapacityBeforeNetwork ==
    /\ ~CapacityOk(cur.size) =>
          /\ calls = {}
          /\ pc \in {"upload_file", "sleep_51"}
          /\ pc = "sleep_51" => result = "AWS"
          /\ upload = NoUpload
    /\ CapacityOk(cur.size) => ~(pc = "sleep_51" /\ calls = {})

\* upload_file has rejected a size of more than MAX_CHUNKS parts
C9_Witness ==
    /\ pc = "sleep_51"
    /\ result = "AWS"
    /\ calls = {}
    /\ cur.size > CHUNK_SIZE * MAX_CHUNKS

CopyPcs ==
    {"copy_check_tokens", "copy_get_download_url", "copy_get_file", "copy_check_size",
     "copy_put_object"}

UploadPcs ==
    {"upload_file", "upload_first_check_tokens", "upload_first_url", "create_multipart_upload",
     "upload_next", "upload_check_tokens", "upload_check_url", "get_file_range", "upload_part",
     "complete_multipart_upload"}

\* C10: a file is on the single-shot path exactly when its size is at most
\* CHUNK_SIZE and on the multipart path otherwise, and every multipart transfer
\* that completed uploaded ceil(size / CHUNK_SIZE) parts.
C10_PathBySize ==
    /\ pc \in CopyPcs => cur.size <= CHUNK_SIZE
    /\ pc \in UploadPcs => cur.size > CHUNK_SIZE
    /\ "put_object" \in calls => cur.size <= CHUNK_SIZE
    /\ "create_multipart_upload" \in calls => cur.size > CHUNK_SIZE
    /\ \A i \in 1..Len(outcomes) :
         /\ outcomes[i].how = "copied" => deltas[i].size <= CHUNK_SIZE
         /\ outcomes[i].how = "uploaded" =>
              /\ deltas[i].size > CHUNK_SIZE
              /\ outcomes[i].parts = Ceil(deltas[i].size, CHUNK_SIZE)

\* a multipart transfer of more than one part has completed
C10_Witness ==
    \E i \in 1..Len(outcomes) : outcomes[i].how = "uploaded" /\ outcomes[i].parts > 1

-----------------------------------------------------------------------------
(* Properties of the credential set                                         *)

Min2(a, b) == IF a < b THEN a ELSE b

\* ticks from refreshed_at to the clock
Elapsed == now - tokens.refreshed_at

\* C17 as stated: is_expired is true exactly when the time elapsed since
\* refreshed_at exceeds min(expires_in, 1800) seconds.
C17_ExpiredIffElapsedExceeds ==
    is_expired(tokens, now) <=>
        Elapsed > Min2(tokens.expires_in, TOKEN_MAX_AGE) * TicksPerSecond

\* C17: is_expired is true exactly when the whole seconds elapsed since
\* refreshed_at (the elapsed time truncated to seconds), not since granted_at,
\* exceed min(expires_in, 1800); a call of is_expired returns that value.
C17_ExpiredIffWholeSecondsExceed ==
    /\ is_expired(tokens, now) <=>
          num_seconds(Elapsed) > Min2(tokens.expires_in, TOKEN_MAX_AGE)
    /\ token_result.call = "is_expired" =>
          (token_result.ret = "true" <=>
              num_seconds(Elapsed) > Min2(tokens.expires_in, TOKEN_MAX_AGE))

\* a set refreshed after its grant, with expires_in = 3600 and 1900 seconds
\* elapsed since the refresh, has been reported expired
C17_Witness ==
    /\ token_result.call = "is_expired"
    /\ token_result.ret = "true"
    /\ tokens.expires_in = 3600
    /\ Elapsed = 1900 * TicksPerSecond
    /\ tokens.refreshed_at > tokens.granted_at

\* C18: after a refresh attempt the authority rejected, the credential file is
\* gone and refresh_tokens has returned RefreshTokenExpired, which sync sees as
\* TokenExpiredWarning.
C18_RejectionRemovesAndReports ==
    (token_result.call = "refresh_tokens" /\ token_result.resp = "rejected") =>
        /\ tokens_store = None
        /\ token_result.ret = "RefreshTokenExpired"
        /\ CloudSyncErrorOf(token_result.ret) = "TokenExpiredWarning"

\* C20: a step in which refresh_tokens returns Ok replaces token_type, scope,
\* expires_in, ext_expires_in, access_token and refresh_token by the values of
\* the authority's answer, sets refreshed_at to the current time, keeps
\* granted_at, and leaves the credential file holding the new set.
C20_RefreshReplacesAndPersists ==
    [][(token_result'.call = "refresh_tokens" /\ token_result'.ret = "Ok") =>
         LET import == token_result'.import
         IN  /\ import = TokensImport(Generation(tokens) + 1, import.expires_in)
             /\ tokens'.token_type = import.token_type
             /\ tokens'.scope = import.scope
             /\ tokens'.expires_in = import.expires_in
             /\ tokens'.ext_expires_in = import.ext_expires_in
             /\ tokens'.access_token = import.access_token
             /\ tokens'.refresh_token = import.refresh_token
             /\ tokens'.refreshed_at = now
             /\ tokens'.granted_at = tokens.granted_at
             /\ IsSome(tokens_store')
             /\ from_json(Unwrap(tokens_store')) = tokens']_vars

\* a refresh at a later time than the grant has returned Ok
C20_Witness ==
    /\ token_result.call = "refresh_tokens"
    /\ token_result.ret = "Ok"
    /\ tokens.refreshed_at > tokens.granted_at
    /\ Generation(tokens) = 1
    /\ tokens_store = Some(to_json(tokens))

-----------------------------------------------------------------------------
(* Properties of the transfer paths                                         *)

\* the list holds the parts 1..Len(parts), in this order
PartsInOrder(parts) == \A i \in 1..Len(parts) : parts[i].part_number = i

\* the pc values of upload_file's loop body, from the credential check of a
\* chunk to its upload_part
ChunkPcs == {"upload_check_tokens", "upload_check_url", "get_file_range", "upload_part"}

\* C11: during a multipart transfer the CompletedPart list is parts 1..k in
\* order, the chunk being worked on is chunk k+1 (so its read starts only after
\* upload_part of chunk k returned), and complete_multipart_upload is called
\* only with one CompletedPart per planned chunk.
C11_PartsInOrderAndComplete ==
    /\ pc \in UploadPcs => PartsInOrder(upload.parts)
    /\ pc \in ChunkPcs =>
          /\ IsSome(upload.range)
          /\ Unwrap(upload.range)[1] = Len(upload.parts) + 1
    /\ pc = "complete_multipart_upload" =>
          /\ Len(upload.parts) = ChunkCount(cur.size)
          /\ Len(upload.parts) = Ceil(cur.size, CHUNK_SIZE)

\* complete_multipart_upload is about to be called with the two parts of a file
C11_Witness ==
    /\ pc = "complete_multipart_upload"
    /\ Len(upload.parts) = 2
    /\ upload.parts[2].part_number = 2

\* C12: a call of complete_multipart_upload with a part list that has a gap or
\* is out of numeric order fails and leaves the bucket as it was.
C12_MalformedListFails ==
    [][(pc = "complete_multipart_upload" /\ ~PartsInOrder(upload.parts)) =>
         /\ pc' = "sleep_51"
         /\ result' = "AWS"
         /\ bucket' = bucket]_vars

\* C13: when get_file returned a number of bytes other than size, copy_file
\* returns the OneDrive error, put_object is not called and the bucket stays as
\* it was; put_object is reached and the bucket written only with size bytes.
C13_SizeMismatchStopsCopy ==
    [][/\ (pc = "copy_check_size" /\ upload.bytes # cur.size) =>
             /\ pc' = "sleep_51"
             /\ result' = "OneDrive"
             /\ bucket' = bucket
             /\ "put_object" \notin calls'
       /\ pc' = "copy_put_object" => upload'.bytes = cur'.size
       /\ bucket' # bucket =>
             /\ pc = "copy_put_object"
             /\ upload.bytes = cur.size
             /\ bucket'[cur.filename] = Some(StoredObject(cur.size, I64ToString(cur.mtime)))]_vars

\* get_file has returned fewer bytes than size
C13_Witness ==
    /\ pc = "copy_check_size"
    /\ upload.bytes < cur.size
    /\ "get_file" \in calls

\* C14: a part is uploaded only with as many bytes as its planned range, and
\* an object a multipart transfer has completed has the size of the record.
C14_IntegrityMismatchIsFatal ==
    /\ pc = "upload_part" =>
          upload.bytes = Unwrap(upload.range)[3] - Unwrap(upload.range)[2] + 1
    /\ (pc \in {"reconcile", "save_delta_link"} /\ outcomes # <<>>
            /\ outcomes[Len(outcomes)].how = "uploaded") =>
          Unwrap(bucket[deltas[Len(outcomes)].filename]).size = deltas[Len(outcomes)].size

ReadPcs == {"copy_get_file", "get_file_range"}
CheckPcs == {"copy_check_tokens", "upload_first_check_tokens", "upload_check_tokens"}

\* C15: get_file and get_file_range are called only after a check_tokens that
\* returned Ok with no source read since, and a check_tokens that does not
\* return Ok ends the transfer before the read.
C15_CheckBeforeEveryRead ==
    [][/\ pc' \in ReadPcs => upload'.checked
       /\ (pc \in ReadPcs /\ pc' \notin {pc, "sleep_51"}) => ~upload'.checked
       /\ (pc \in CheckPcs /\ pc' # pc /\ ~upload'.checked) => pc' = "sleep_51"]_vars

\* the read of the second chunk is about to be issued after a check that refreshed
C15_Witness ==
    /\ pc = "get_file_range"
    /\ upload.checked
    /\ Len(upload.parts) = 1
    /\ "refresh_tokens" \in calls

\* C16: get_file_range is called only with a download url that was at most
\* 1800 seconds old at the test before the read, a url found older having
\* been replaced by a new one.
C16_NoReadWithAgedUrl ==
    pc = "get_file_range" => upload.url_age <= URL_MAX_AGE * TicksPerSecond

\* the read of the second chunk is about to be issued with a renewed url
C16_Witness ==
    /\ pc = "get_file_range"
    /\ upload.url_age = 0
    /\ Len(upload.parts) = 1

-----------------------------------------------------------------------------
(* Properties of from_file (FromFileSpec)                                    *)

\* from_file is inside its loop
Loading == loading.pc \in {"exists", "read", "sleep"}

\* the file at tokens_path holds a Tokens
FileValid == IsSome(tokens_store) /\ parses(Unwrap(tokens_store))

\* C21: a call of from_file never fails for want of the file: it fails only on
\* a file it cannot read as Tokens; while the file is absent every test of it
\* is followed by a sleep of 60 seconds and the next test, the warning is
\* written at most once, and once the file holds a Tokens the call returns
\* the Tokens the file holds when it is read.
C21_PollsUntilFilePresent ==
    /\ [](loading.pc = "failed" => loading.cause = "unreadable")
    /\ [](loading.warnings <= 1)
    /\ [][/\ (loading.pc = "exists" /\ ~IsSome(tokens_store) /\ loading' # loading)
              => (loading'.pc = "sleep" /\ loading'.sleep = POLL_SECS
                  /\ loading'.polls = Counted(loading.polls))
          /\ (loading.pc = "sleep" /\ loading' # loading) => loading'.pc = "exists"
          /\ (loading.pc = "read" /\ loading'.pc = "returned")
              => (FileValid /\ tokens' = from_json(Unwrap(tokens_store)))]_vars
    /\ ((Loading /\ FileValid) ~> (loading.pc = "returned"))

\* from_file has warned once, slept more than once, and returned the Tokens
\* the /code endpoint saved meanwhile
C21_Witness ==
    /\ loading.pc = "returned"
    /\ loading.warnings = 1
    /\ loading.polls >= 2
    /\ FileValid
    /\ tokens = from_json(Unwrap(tokens_store))
    /\ Generation(tokens) = 1


-----------------------------------------------------------------------------
(* Properties of get_delta (Spec)                                            *)

\* the links of the page the server returns for the request of position u
NextLinkOf(u) == IF u + PageSize < Len(feed) THEN Some(u + PageSize) ELSE None
DeltaLinkOf(u) == IF u + PageSize < Len(feed) THEN None ELSE Some(Len(feed))

\* the records at positions lo+1..hi that pass the filter, as ItemInfo, in the
\* order of the change log
QualifyingRecords(lo, hi) ==
    LET kept == SelectSeq([i \in 1..(hi - lo) |-> lo + i], LAMBDA q : Qualifies(feed[q]))
    IN  [i \in 1..Len(kept) |-> item_info(feed[kept[i]], kept[i])]

\* C22: get_delta starts at the saved cursor url; a page that carries a
\* nextLink is followed to exactly that link, which lies further on, so no page
\* is requested twice; every page adds its qualifying records, in page order,
\* behind those of the pages before it; get_delta returns at the first page
\* that carries a deltaLink and no nextLink, with the records of every page
\* visited, and the cursor it stores is that page's deltaLink.
C22_FollowsPagination ==
    [][/\ (pc = "get_delta" /\ pc' = "get_delta_page")
            => (url' = PersistedUrl /\ deltas' = <<>>)
       /\ (pc = "get_delta_page" /\ pc' = "get_delta_page" /\ url' # url)
            => /\ NextLinkOf(url) = Some(url')
               /\ url' > url
               /\ deltas' = deltas \o QualifyingRecords(url, url')
               /\ deltas' = QualifyingRecords(PersistedUrl, url')
               /\ od_link' = od_link
       /\ (pc = "get_delta_page" /\ pc' \in {"list_objects", "save_delta_link"})
            => /\ NextLinkOf(url) = None
               /\ DeltaLinkOf(url) = Some(od_link')
               /\ deltas' = deltas \o QualifyingRecords(url, od_link')
               /\ deltas' = QualifyingRecords(PersistedUrl, od_link')]_vars

\* get_delta has returned the records of two pages, in their order, and stored
\* the deltaLink of the second
C22_Witness ==
    /\ pc = "list_objects"
    /\ cursor_file = None
    /\ Len(deltas) = 2
    /\ deltas[1].seq = 1
    /\ deltas[2].seq = 2
    /\ od_link = 2


\* C23: get_delta returns Ok only from a page whose deltaLink it stores, so a
\* page without links never ends it with Ok; when it returns Err (a request
\* failed, or a page carried neither link) nothing of what it gathered is
\* returned, the cursor in the OneDrive struct and the cursor file are as they
\* were, and sync_loop ends the pass there without writing the cursor file.
C23_GetDeltaFailsAsAWhole ==
    [][/\ (pc = "get_delta_page" /\ pc' \in {"list_objects", "save_delta_link"})
            => DeltaLinkOf(url) = Some(od_link')
       /\ (pc' = "get_delta_err" /\ pc # "get_delta_err")
            => /\ pc = "get_delta_page"
               /\ deltas' = <<>>
               /\ od_link' = od_link
               /\ cursor_file' = cursor_file
       /\ (pc = "get_delta_err" /\ pc' # "get_delta_err")
            => /\ pc' = "sleep_51"
               /\ deltas' = <<>>
               /\ cursor_file' = cursor_file
               /\ bucket' = bucket
               /\ applied' = applied]_vars

\* get_delta has failed in the second pass of a sync_loop, with records
\* waiting behind the cursor the first pass stored and wrote
C23_Witness ==
    /\ pc = "get_delta_err"
    /\ od_link = 1
    /\ cursor_file = Some(1)
    /\ Len(feed) = 2
    /\ Qualifies(feed[2])


\* C24: with no cursor file get_delta starts at the root of the feed and
\* returns every record of the change log that passes its filter, each source
\* file among them; and when the inventory list_objects returned is empty, the
\* for loop calls backup_file for every file record it comes to (unless the
\* process is stopped there).
C24_FirstRunTransfersEveryFile ==
    [][/\ (cursor_file = None /\ pc = "get_delta" /\ pc' = "get_delta_page")
            => url' = RootUrl
       /\ (cursor_file = None /\ pc = "get_delta_page" /\ pc' \in AfterDelta)
            => /\ deltas' = QualifyingRecords(RootUrl, Len(feed))
               /\ \A p \in 1..Len(feed) :
                     (Qualifies(feed[p]) /\ feed[p].file) => p \in DeliveredSeqs'
       /\ (pc = "reconcile" /\ objects = {} /\ deltas[idx].file /\ pc' # "reconcile")
            => \/ pc' = "backup_file" /\ cur' = deltas[idx]
               \/ pc' = "sleep_51" /\ result' = "none"]_vars

\* the first pass, begun without a cursor file against an empty bucket, has
\* transferred both files of the source and stands before its cursor write
C24_Witness ==
    /\ cursor_file = None
    /\ ~retry
    /\ pc = "save_delta_link"
    /\ objects = {}
    /\ Len(deltas) = 2
    /\ Len(outcomes) = 2
    /\ \A i \in 1..2 : deltas[i].file /\ outcomes[i].how \in {"copied", "uploaded"}


-----------------------------------------------------------------------------
(* Properties of the scheduler (Spec)                                        *)

\* C25: the task of sync never ends: sync_loop does not return Ok, so sync
\* does not leave its loop, and no step of a pass takes the task down.
C25_SyncTaskNeverEnds == pc \notin {"terminated", "panic"}


\* C26: a pass starts (check_tokens of line 65 is reached) only in the step in
\* which sleep_until_time returns, or from the first look of from_file, made
\* at that same moment; never after a wait of another kind.
C26_PassStartsOnlyOnWake ==
    [][(pc' = "check_tokens" /\ pc # "check_tokens") => pc \in {"sleep_89", "from_file"}]_vars


-----------------------------------------------------------------------------
(* Properties of sleep_until_time (SleepSpec)                                *)

\* the first tick after clock that falls on time of day time
EarliestAfter(clock, time) ==
    CHOOSE x \in (clock + 1)..(clock + DayTicks) : x % DayTicks = time * TicksPerSecond

\* C27: for every time of the call and every time of day, sleep_until_time
\* computes as its wake instant the first occurrence of that time of day
\* strictly after the time of the call, and it returns, not before that instant.
C27_WakesAtEarliestOccurrence ==
    /\ alarm.pc # "panic"
    /\ alarm.pc \in {"sleeping", "returned"} =>
          alarm.proposed = EarliestAfter(alarm.called_at, alarm.time)
    /\ alarm.pc = "returned" => alarm.returned_at >= alarm.proposed


-----------------------------------------------------------------------------
(* Properties of a pass (Spec)                                               *)

\* the stage of a pass a pc value belongs to; 0 = outside a pass
Stage(p) ==
    CASE p = "check_tokens" -> 1
      [] p \in {"get_delta", "get_delta_page", "get_delta_err"} -> 2
      [] p = "list_objects" -> 3
      [] p \in {"reconcile", "backup_file"} \cup CopyPcs \cup UploadPcs -> 4
      [] p = "save_delta_link" -> 5
      [] OTHER -> 0

\* C28: a pass goes through its stages in the order credential check, change
\* fetch, inventory fetch, reconcile and transfer, cursor write, leaving at any
\* stage only to the outside of the pass; the inventory is fetched in one step
\* per pass, entered from the change fetch with a change set that is not empty
\* and before any transfer; with an empty change set the pass goes from the
\* change fetch straight to the cursor write.
C28_StagesInOrder ==
    [][/\ \/ Stage(pc') \in {Stage(pc), Stage(pc) + 1, 0}
          \/ Stage(pc) = 2 /\ Stage(pc') = 5
       /\ (Stage(pc) = 2 /\ Stage(pc') = 3) => deltas' # <<>>
       /\ (Stage(pc) = 2 /\ Stage(pc') = 5) => deltas' = <<>>
       /\ (Stage(pc) = 4 /\ Stage(pc') = 5) => deltas # <<>>
       /\ objects' # objects =>
            \/ pc = "list_objects" /\ pc' = "reconcile"
            \/ objects' = {} /\ Stage(pc') = 0
       /\ (pc = "list_objects" /\ pc' = "list_objects") => UNCHANGED <<passVars, bucket>>
       /\ bucket' # bucket => Stage(pc) = 4]_vars

\* a pass that found no change after a pass that transferred a file: it came
\* from get_delta to the cursor write with no inventory
C28_Witness ==
    /\ pc = "save_delta_link"
    /\ deltas = <<>>
    /\ objects = {}
    /\ applied # {}
    /\ od_link >= 1
    /\ cursor_file = Some(od_link)


\* the errors sync_loop returns
Failures == {"OneDrive", "AWS", "TokenExpiredWarning", "TokenError"}

\* C29: the step in which a call of a pass fails ends the pass: it leaves the
\* bucket, the cursor file and the set of handled records as they are, drops
\* the batch and takes the loop to the sleep of line 51; from there until that
\* sleep returns no call is made and nothing is written.
C29_FailureEndsThePass ==
    [][/\ (result' \in Failures /\ result' # result)
            => /\ pc' = "sleep_51"
               /\ bucket' = bucket
               /\ cursor_file' = cursor_file
               /\ applied' = applied
               /\ deltas' = <<>>
               /\ upload' = NoUpload
       /\ result \in Failures
            => /\ pc = "sleep_51"
               /\ pc' \in {"sleep_51", "from_file"}
               /\ calls' \subseteq calls
               /\ bucket' = bucket
               /\ cursor_file' = cursor_file
               /\ applied' = applied
               /\ deltas' = <<>>]_vars

\* a pass has failed at a call to S3 after it had transferred its first file:
\* the loop sleeps, the cursor file not written
C29_Witness ==
    /\ pc = "sleep_51"
    /\ result = "AWS"
    /\ applied # {}
    /\ cursor_file = None
    /\ Len(feed) = 2


\* pc values inside backup_file, from its entry to the end of the transfer
TransferPcs == {"backup_file"} \cup CopyPcs \cup UploadPcs

\* C30: whenever backup_file or one of the two transfers is running, the record
\* it runs for is a record of the change log that has a parent path, is not
\* deleted and is a file, and its filename is not empty; and every record the
\* for loop has copied or uploaded is such a record.
C30_OnlyFilesAreTransferred ==
    /\ pc \in TransferPcs =>
          /\ cur.seq \in 1..Len(feed)
          /\ cur = item_info(feed[cur.seq], cur.seq)
          /\ feed[cur.seq].path
          /\ ~feed[cur.seq].deleted
          /\ feed[cur.seq].file
          /\ cur.file
          /\ cur.filename # ""
    /\ \A i \in 1..Len(outcomes) :
          outcomes[i].how \in {"copied", "uploaded"} =>
             /\ feed[deltas[i].seq].path
             /\ ~feed[deltas[i].seq].deleted
             /\ feed[deltas[i].seq].file

\* the download of the second record of the change log is running; the first
\* record, a deleted file, was left out of the batch
C30_Witness ==
    /\ pc = "copy_get_file"
    /\ Len(feed) = 2
    /\ feed[1].deleted
    /\ feed[1].file
    /\ cur.seq = 2
    /\ Len(deltas) = 1
    /\ "get_download_url" \in calls

-----------------------------------------------------------------------------
(* MailSpec: the sync task writing log records while the mailer task runs.    *)
(* main.rs 47-58: the channel is made, config(tx) hands the sender to the     *)
(* MailAppender, the mailer task is spawned with the receiver, then the sync  *)
(* task.                                                                      *)

\* records the channel is followed for; a count of MaxQueue reads "MaxQueue or more"
MaxQueue == 2

\* mail: pc        "idle" (task not yet run) | "new" (at line 81 of mail_manager.rs) |
\*                 "recv" (in rx.recv of line 89) | "send_mail" (in line 91) |
\*                 "returned" (the task is over and the receiver dropped)
\*       queue     records in the channel
\*       appended  what the last MailAppender::append returned
\*       routed    the logger configuration hands the records of the sync task
\*                 to the MailAppender
MailStart(routed) ==
    [pc |-> "idle", queue |-> 0, appended |-> "none", routed |-> routed]

\* append as it would be over a channel of capacity MaxQueue whose send waits
\* for room
append_bounded ==
    /\ mail.pc = "returned" \/ mail.queue < MaxQueue
    /\ mail' = IF mail.pc = "returned"
               THEN [mail EXCEPT !.appended = "Err"]
               ELSE [mail EXCEPT !.queue = mail.queue + 1, !.appended = "Ok"]

\* impl Append for MailAppender, lines 111-128 of logging.rs: the record is
\* encoded and given to UnboundedSender::send, which does not wait: it is Err
\* once the receiver is dropped and Ok, with the record queued, otherwise
append ==
    mail' = IF mail.pc = "returned"
            THEN [mail EXCEPT !.appended = "Err"]
            ELSE [mail EXCEPT !.queue = IF mail.queue < MaxQueue THEN mail.queue + 1
                                         ELSE MaxQueue,
                              !.appended = "Ok"]

\* a log macro of the sync task: log4rs calls append of every appender of the
\* record's logger and hands no result back to the caller
Logged == IF mail.routed THEN append ELSE UNCHANGED mail

\* tokio runs the spawned task (main.rs 52-54)
MailerStarts ==
    /\ mail.pc = "idle"
    /\ mail' = [mail EXCEPT !.pc = "new"]

\* lines 81-86 of mail_manager.rs: Mail::new; on Err the task returns, which drops rx
\* and the records in it
MailNew ==
    /\ mail.pc = "new"
    /\ \E ok \in BOOLEAN :
         mail' = IF ok THEN [mail EXCEPT !.pc = "recv"]
                 ELSE [mail EXCEPT !.pc = "returned", !.queue = 0]

\* line 89: rx.recv() returns Some(body) when a record is queued, and waits
\* otherwise (the sender lives in the logger, so None is never returned)
MailRecv ==
    /\ mail.pc = "recv"
    /\ mail.queue > 0
    /\ \E left \in {mail.queue - 1} \cup (IF mail.queue = MaxQueue THEN {MaxQueue} ELSE {}) :
         mail' = [mail EXCEPT !.pc = "send_mail", !.queue = left]

\* lines 91-96: send_mail returns, after any time; both arms of the match go
\* back to line 89
MailSendMail ==
    /\ mail.pc = "send_mail"
    /\ \E sent \in {"Ok", "Err"} : mail' = [mail EXCEPT !.pc = "recv"]

\* a step of the sync task, whatever happens to the channel
PassStep ==
    \/ Wake
    \/ FromFile
    \/ SyncCheckTokens
    \/ GetDeltaStart
    \/ GetDeltaPage
    \/ GetDeltaFailed
    \/ ListObjects
    \/ Reconcile
    \/ BackupFile
    \/ CopyCheckTokens
    \/ CopyGetDownloadUrl
    \/ CopyGetFile
    \/ CopyCheckSize
    \/ CopyPutObject
    \/ UploadFile
    \/ UploadFirstCheckTokens
    \/ UploadFirstUrl
    \/ CreateMultipartUpload
    \/ UploadNext
    \/ UploadCheckTokens
    \/ UploadCheckUrl
    \/ GetFileRange
    \/ UploadPart
    \/ CompleteMultipartUpload
    \/ SaveDeltaLink

\* the variables neither the sync task nor the mailer touches
restVars == <<chunkVars, tokenVars, callVars>>

\* a step of the sync task with its log records
MailPassStep == PassStep /\ Logged /\ UNCHANGED restVars

\* one changed file waits in the feed: of the largest size copied in one
\* piece, or of the smallest size uploaded in parts
MailInit ==
    /\ \E size \in {CHUNK_SIZE, CHUNK_SIZE + 1} : feed = <<FileValue("a", size, 1)>>
    /\ bucket = EmptyBucket
    /\ cursor_file = None
    /\ tokens_file = TRUE
    /\ SyncStart
    /\ ChunkIdle
    /\ TokenIdle
    /\ CallsIdle
    /\ \E routed \in BOOLEAN : mail = MailStart(routed)

MailNext ==
    \/ Wake /\ Logged /\ UNCHANGED restVars
    \/ FromFile /\ Logged /\ UNCHANGED restVars
    \/ SyncCheckTokens /\ Logged /\ UNCHANGED restVars
    \/ GetDeltaStart /\ Logged /\ UNCHANGED restVars
    \/ GetDeltaPage /\ Logged /\ UNCHANGED restVars
    \/ GetDeltaFailed /\ Logged /\ UNCHANGED restVars
    \/ ListObjects /\ Logged /\ UNCHANGED restVars
    \/ Reconcile /\ Logged /\ UNCHANGED restVars
    \/ BackupFile /\ Logged /\ UNCHANGED restVars
    \/ CopyCheckTokens /\ Logged /\ UNCHANGED restVars
    \/ CopyGetDownloadUrl /\ Logged /\ UNCHANGED restVars
    \/ CopyGetFile /\ Logged /\ UNCHANGED restVars
    \/ CopyCheckSize /\ Logged /\ UNCHANGED restVars
    \/ CopyPutObject /\ Logged /\ UNCHANGED restVars
    \/ UploadFile /\ Logged /\ UNCHANGED restVars
    \/ UploadFirstCheckTokens /\ Logged /\ UNCHANGED restVars
    \/ UploadFirstUrl /\ Logged /\ UNCHANGED restVars
    \/ CreateMultipartUpload /\ Logged /\ UNCHANGED restVars
    \/ UploadNext /\ Logged /\ UNCHANGED restVars
    \/ UploadCheckTokens /\ Logged /\ UNCHANGED restVars
    \/ UploadCheckUrl /\ Logged /\ UNCHANGED restVars
    \/ GetFileRange /\ Logged /\ UNCHANGED restVars
    \/ UploadPart /\ Logged /\ UNCHANGED restVars
    \/ CompleteMultipartUpload /\ Logged /\ UNCHANGED restVars
    \/ SaveDeltaLink /\ Logged /\ UNCHANGED restVars
    \/ Authorize /\ UNCHANGED <<mail, restVars>>
    \/ MailerStarts /\ UNCHANGED <<syncVars, restVars>>
    \/ MailNew /\ UNCHANGED <<syncVars, restVars>>
    \/ MailRecv /\ UNCHANGED <<syncVars, restVars>>
    \/ MailSendMail /\ UNCHANGED <<syncVars, restVars>>

MailSpec == MailInit /\ [][MailNext]_vars

-----------------------------------------------------------------------------
(* Properties of the mail channel *)

\* what the last step of the sync task ended with
Outcomes == {"none", "ok", "OneDrive", "AWS", "TokenExpiredWarning", "TokenError"}

\* C31: writing log records to the mailer neither holds back nor changes a
\* step of the sync task: in every state, whatever the mailer task has done
\* (not yet run, waiting, busy sending, over with the receiver dropped) and
\* however many records wait in the channel, every outcome the sync task's
\* next step can have without the channel it can have with it; and every step
\* that changes the state of the sync task is a step of the sync task
\* (or the authorization endpoint writing the credential file), never one of
\* the mailer.
C31_MailNeverHoldsSync ==
    /\ [](\A r \in Outcomes :
            (ENABLED (PassStep /\ result' = r)) => (ENABLED (MailPassStep /\ result' = r)))
    /\ [][PassStep \/ Authorize \/ UNCHANGED syncVars]_vars

\* a pass has ended well with the mailer over, the receiver dropped and the
\* last record refused by the channel
C31_Witness ==
    /\ pc = "sleep_89"
    /\ result = "ok"
    /\ mail.pc = "returned"
    /\ mail.appended = "Err"
    /\ \E k \in Items : bucket[k] # None

-----------------------------------------------------------------------------
(* DeltaSpec: the functions of one OneDrive instance called in any order,     *)
(* from OneDrive::new on                                                      *)

\* the caller calls get_delta on the instance
CallGetDelta ==
    /\ pc = "one_drive"
    /\ pc' = "get_delta"
    /\ Log("get_delta")
    /\ UNCHANGED <<worldVars, result, passVars, cur, applied, retry>>

\* the caller calls save_delta_link on the instance
CallSaveDeltaLink ==
    /\ pc = "one_drive"
    /\ pc' = "save_delta_link"
    /\ Log("save_delta_link")
    /\ UNCHANGED <<worldVars, result, passVars, cur, applied, retry>>

\* get_delta or save_delta_link has returned Ok to the caller, which keeps the instance
OneDriveReturns ==
    /\ pc \in {"list_objects", "sleep_89"}
    /\ pc' = "one_drive"
    /\ deltas' = <<>>
    /\ UNCHANGED <<worldVars, result, od_link, access, url, objects, idx, outcomes, upload,
                   cur, calls, applied, retry>>

\* OneDrive::new (lines 34-49): delta_link.data_delta_link is String::default();
\* the cursor file holds nothing, or a cursor into the change log
DeltaInit ==
    /\ feed \in UNION {[1..n -> Values] : n \in 0..MaxFeed}
    /\ cursor_file \in {None} \cup {Some(k) : k \in 0..Len(feed)}
    /\ bucket = EmptyBucket
    /\ tokens_file = TRUE
    /\ pc = "one_drive"
    /\ result = "none"
    /\ od_link = EmptyLink
    /\ access = OneDrive_new(LoadedToken)
    /\ url = RootUrl
    /\ deltas = <<>>
    /\ objects = {}
    /\ idx = 0
    /\ cur = NoFile
    /\ upload = NoUpload
    /\ calls = {}
    /\ outcomes = <<>>
    /\ applied = {}
    /\ retry = FALSE
    /\ ChunkIdle
    /\ TokenIdle
    /\ CallsIdle
    /\ mail = NoMail

DeltaNext ==
    \/ CallGetDelta /\ UNCHANGED unitVars
    \/ CallSaveDeltaLink /\ UNCHANGED unitVars
    \/ GetDeltaStart /\ UNCHANGED unitVars
    \/ GetDeltaPage /\ UNCHANGED unitVars
    \/ GetDeltaFailed /\ UNCHANGED unitVars
    \/ SaveDeltaLink /\ UNCHANGED unitVars
    \/ OneDriveReturns /\ UNCHANGED unitVars

DeltaSpec == DeltaInit /\ [][DeltaNext]_vars

-----------------------------------------------------------------------------
(* Properties of save_delta_link *)

\* C32: a save_delta_link that returns Ok on an instance on which get_delta
\* has not been called leaves the cursor file as it was.
C32_SaveBeforeGetDeltaKeepsCursor ==
    [][(pc = "save_delta_link" /\ "get_delta" \notin calls /\ pc' = "sleep_89")
          => cursor_file' = cursor_file]_vars

-----------------------------------------------------------------------------
(* AuthSpec: the sync loop keeps the Tokens it loaded (main.rs 55-58,          *)
(* cloud_sync.rs 53-65) and refreshes it, while the /code endpoint of the     *)
(* HTTP server (main.rs 35-42, 60-68) saves a new Tokens to the same file     *)

\* check_tokens (cloud_sync.rs 119-126) finding the set of the loop expired
check_tokens == is_expired(tokens, now) /\ refresh_tokens

AuthNext ==
    \/ TokenTick /\ UNCHANGED <<mailVars, chunkVars, syncVars, callVars>>
    \/ check_tokens /\ UNCHANGED <<mailVars, chunkVars, syncVars, callVars>>
    \/ CodeReceived /\ UNCHANGED <<mailVars, chunkVars, syncVars>>

AuthSpec == TokenInit /\ [][AuthNext]_vars

-----------------------------------------------------------------------------
(* Properties of the credential file under re-authorization *)

\* the credential file holds a set granted after the one the sync loop holds
ReAuthorized ==
    /\ IsSome(tokens_store)
    /\ parses(Unwrap(tokens_store))
    /\ from_json(Unwrap(tokens_store)).granted_at > tokens.granted_at

\* C33: while the credential file holds a set that a re-authorization saved
\* after the sync loop loaded its own, the file is changed by nothing but
\* another re-authorization: no refresh of the loop's set removes or rewrites it.
C33_RefreshKeepsReAuthorizedSet ==
    [][ReAuthorized => (tokens_store' = tokens_store \/ CodeReceived)]_vars

-----------------------------------------------------------------------------
(* QuietSpec: the sync task alone on a source that has stopped changing, with *)
(* a credential file, every refresh accepted and every request answered.      *)
(* The task is run again whenever it can take a step (its sleeps end, its     *)
(* requests are answered), hence the fairness.                                *)

\* the step ends the pass with an error or a panic
Failing == pc' \in {"sleep_51", "get_delta_err", "panic"} /\ pc # pc'

\* no call to the source, the destination, the authority or the file system
\* fails, and every download brings the whole body asked for; what is left is
\* the error check_for_multipart_upload returns by itself
Quiet ==
    /\ Failing => pc = "upload_file"
    /\ pc = "copy_get_file" => upload'.bytes = cur.size
    /\ pc = "get_file_range"
         => upload'.bytes = Unwrap(upload.range)[3] - Unwrap(upload.range)[2] + 1

\* two changed files with content wait in the change log, of every size at the
\* borders of the transfer paths
QuietInit ==
    /\ \E s1, s2 \in FileSizes \ {0}, m1, m2 \in Mtimes :
         feed = <<FileValue("a", s1, m1), FileValue("b", s2, m2)>>
    /\ bucket = EmptyBucket
    /\ cursor_file = None
    /\ tokens_file = TRUE
    /\ SyncStart
    /\ ChunkIdle
    /\ TokenIdle
    /\ CallsIdle
    /\ mail = NoMail

QuietNext ==
    \/ Wake /\ Quiet /\ UNCHANGED unitVars
    \/ FromFile /\ Quiet /\ UNCHANGED unitVars
    \/ SyncCheckTokens /\ Quiet /\ UNCHANGED unitVars
    \/ GetDeltaStart /\ Quiet /\ UNCHANGED unitVars
    \/ GetDeltaPage /\ Quiet /\ UNCHANGED unitVars
    \/ ListObjects /\ Quiet /\ UNCHANGED unitVars
    \/ Reconcile /\ Quiet /\ UNCHANGED unitVars
    \/ BackupFile /\ Quiet /\ UNCHANGED unitVars
    \/ CopyCheckTokens /\ Quiet /\ UNCHANGED unitVars
    \/ CopyGetDownloadUrl /\ Quiet /\ UNCHANGED unitVars
    \/ CopyGetFile /\ Quiet /\ UNCHANGED unitVars
    \/ CopyCheckSize /\ Quiet /\ UNCHANGED unitVars
    \/ CopyPutObject /\ Quiet /\ UNCHANGED unitVars
    \/ UploadFile /\ Quiet /\ UNCHANGED unitVars
    \/ UploadFirstCheckTokens /\ Quiet /\ UNCHANGED unitVars
    \/ UploadFirstUrl /\ Quiet /\ UNCHANGED unitVars
    \/ CreateMultipartUpload /\ Quiet /\ UNCHANGED unitVars
    \/ UploadNext /\ Quiet /\ UNCHANGED unitVars
    \/ UploadCheckTokens /\ Quiet /\ UNCHANGED unitVars
    \/ UploadCheckUrl /\ Quiet /\ UNCHANGED unitVars
    \/ GetFileRange /\ Quiet /\ UNCHANGED unitVars
    \/ UploadPart /\ Quiet /\ UNCHANGED unitVars
    \/ CompleteMultipartUpload /\ Quiet /\ UNCHANGED unitVars
    \/ SaveDeltaLink /\ Quiet /\ UNCHANGED unitVars

QuietSpec == QuietInit /\ [][QuietNext]_vars /\ WF_vars(QuietNext)

-----------------------------------------------------------------------------
(* Properties of a quiet source *)

\* every file record of the change log has its object with the record's mtime
Delivered ==
    \A p \in 1..Len(feed) :
        (Qualifies(feed[p]) /\ feed[p].file)
            => get_mtime(bucket, feed[p].item) = Some(feed[p].mtime)

\* C34: on a source that no longer changes, with every refresh accepted and
\* every request answered, a pass eventually ends well with the cursor written
\* behind the last record, and by then every file record has a destination
\* object whose stored mtime is the record's.
C34_QuietSourceIsDelivered ==
    <>(/\ pc = "sleep_89"
       /\ result = "ok"
       /\ cursor_file = Some(Len(feed))
       /\ Delivered)

-----------------------------------------------------------------------------
(* Properties of a multipart transfer that fails *)

\* where upload_file stands once create_multipart_upload has returned Ok
SessionPcs ==
    {"upload_next", "upload_check_tokens", "upload_check_url", "get_file_range", "upload_part"}

\* the for loop of sync_loop would call backup_file for f on bucket b
NeedsTransfer(b, f) ==
    LET found == {o \in list_objects(b) : f.filename = o.filename}
    IN  \/ found = {}
        \/ \A t \in found : backup_needed(b, t.filename, f.size, t.size, f.mtime)

\* C35: when a step of upload_file fails after the upload session was opened
\* (the check of the credentials, the renewal of the download url, the read of
\* the chunk, the upload of the part), complete_multipart_upload has not been
\* called for the session, the bucket and the cursor file stay as they are,
\* the record is still behind the cursor, and on the bucket as it is the
\* reconciliation calls backup_file for the record again.
C35_FailedSessionLeavesObject ==
    [][(pc \in SessionPcs /\ pc' = "sleep_51" /\ result' \in Failures)
          => /\ "complete_multipart_upload" \notin calls'
             /\ bucket' = bucket
             /\ cursor_file' = cursor_file
             /\ IsSome(cursor_file') => Unwrap(cursor_file') < cur'.seq
             /\ NeedsTransfer(bucket', cur')]_vars

-----------------------------------------------------------------------------
(* Properties of the access token *)

\* the requests sync_loop sends to the source with the bearer token of the
\* OneDrive struct: the pages of get_delta and the get_download_url calls
AuthorizedRequestPcs ==
    {"get_delta_page", "copy_get_download_url", "upload_first_url", "upload_check_url"}

\* C36: whenever the sync loop is about to send an authorized request to the
\* source, the access token in the OneDrive struct is the access token of the
\* Tokens the loop holds.
C36_RequestsCarryCurrentToken ==
    pc \in AuthorizedRequestPcs => access.od = access.mgr

-----------------------------------------------------------------------------
(* Properties of the cursor write of a pass *)

\* C37: the cursor get_delta stores when it returns is the deltaLink of its
\* last page; a change set without records takes the pass straight to the
\* cursor write and one with records to the inventory; nothing between the
\* return of get_delta and the end of the pass changes the stored cursor; and
\* the pass ends well only by the step of save_delta_link, after which the
\* cursor file holds exactly that cursor - with or without records.
C37_EmptyPassPersistsCursor ==
    [][/\ (pc = "get_delta_page" /\ pc' \in AfterDelta)
            => /\ DeltaLinkOf(url) = Some(od_link')
               /\ (deltas' = <<>>) <=> (pc' = "save_delta_link")
       /\ (pc \in AfterDelta /\ pc' \in AfterDelta) => od_link' = od_link
       /\ (pc' = "sleep_89" /\ pc # "sleep_89")
            => /\ pc = "save_delta_link"
               /\ result' = "ok"
               /\ cursor_file' = Some(od_link)]_vars

\* a pass whose only change record was filtered out has ended with the cursor
\* file moved behind that record
C37_Witness ==
    /\ pc = "sleep_89"
    /\ result = "ok"
    /\ Len(feed) = 1
    /\ ~Qualifies(feed[1])
    /\ cursor_file = Some(1)
    /\ applied = {}

-----------------------------------------------------------------------------
(* Properties of a refresh that fails without a rejection *)

\* C38: a call of refresh_tokens whose request fails in transport, or whose
\* success answer cannot be read as TokensImport, leaves the tokens file and
\* every field of the Tokens as they are and returns Request or FileIO, never
\* RefreshTokenExpired.
C38_UnansweredRefreshChangesNothing ==
    [][(token_result'.call = "refresh_tokens"
            /\ token_result'.resp \in {"unreachable", "garbled"})
          => /\ tokens' = tokens
             /\ tokens_store' = tokens_store
             /\ token_result'.ret \in {"Request", "FileIO"}
             /\ token_result'.ret # "RefreshTokenExpired"]_vars

\* a refresh has failed on an answer that could not be read, late enough for
\* the set to be expired, with the tokens file still holding the set
C38_Witness ==
    /\ token_result.call = "refresh_tokens"
    /\ token_result.resp = "garbled"
    /\ token_result.ret = "FileIO"
    /\ is_expired(tokens, now)
    /\ tokens_store = Some(to_json(tokens))

-----------------------------------------------------------------------------
(* Properties of the destination *)

\* C39: no step removes an object from the bucket; the bucket changes only in
\* the put_object of copy_file and the complete_multipart_upload of
\* upload_file, under the key of the record being transferred and no other,
\* and that record is never one the source marks as deleted.
C39_DestinationNeverShrinks ==
    [][/\ \A k \in Items : IsSome(bucket[k]) => IsSome(bucket'[k])
       /\ bucket' # bucket
            => /\ pc \in {"copy_put_object", "complete_multipart_upload"}
               /\ cur.seq \in 1..Len(feed)
               /\ ~feed[cur.seq].deleted
               /\ IsSome(bucket'[cur.filename])
               /\ \A k \in Items : k # cur.filename => bucket'[k] = bucket[k]]_vars

\* a file was transferred, then deleted at the source; the pass that read the
\* deletion has ended well and the object is still there
C39_Witness ==
    /\ pc = "sleep_89"
    /\ result = "ok"
    /\ Len(feed) = 2
    /\ ~feed[1].deleted
    /\ feed[2].deleted
    /\ feed[2].item = feed[1].item
    /\ cursor_file = Some(2)
    /\ applied = {1}
    /\ IsSome(get_mtime(bucket, feed[1].item))

=============================================================================
